---------------------------- MODULE Spec2Model ----------------------------
(***************************************************************************)
(* CrossRisk: the offline fallback layer of app/db_connection.py.          *)
(*                                                                         *)
(* Sample dataset generators (process-wide cache, numpy's global PRNG),    *)
(* the query pattern classifier and mock result synthesizer                *)
(* (SnowflakeConnection._get_sample_data_for_query), the connection        *)
(* facade (SnowflakeConnection) and the cached query executor (run_query). *)
(*                                                                         *)
(* Numbers.  Scores are fixed point: a score column holds hundredths       *)
(* (12.34 is 1234); inside a generator the unrounded floats are kept in    *)
(* thousandths (bank, insurance) and ten-thousandths (composite, which is  *)
(* 0.6 b + 0.4 i exactly in that unit).  round(x, 2) is round-half-even.   *)
(* A draw of the PRNG is u = r / 1000 with r in 0 .. 999.                  *)
(*                                                                         *)
(* Query texts.  The synthesizer only tests a text for the substrings of   *)
(* Tokens, after lower-casing it.  A text is [upper, toks]: the set of     *)
(* tokens it contains and whether it is written in upper case.  A Python   *)
(* None passed as the text is the value NoneText.                          *)
(***************************************************************************)
EXTENDS Integers, Sequences, FiniteSets, TLC

VARIABLES
    salt,                   \* which member of the PRNG stream family the process runs on
    rng,                    \* numpy's global PRNG state: [seed, pos]
    now,                    \* wall clock, in hours
    sample_data_cache,      \* _sample_data_cache: key -> Row Set, or NoEntry
    pristine,               \* history: key -> the Row Set its generator produced
    constructed,            \* _global_connection is not None
    acquisition,            \* history: what st.connection did at construction
    connection,             \* SnowflakeConnection._connection
    is_offline,             \* SnowflakeConnection._is_offline
    offline_message_shown,  \* SnowflakeConnection._offline_message_shown
    notices,                \* user-visible notices emitted so far: [info, warning, error]
    ret,                    \* handle of the Row Set returned by the last call
    kept,                   \* handle of a Row Set an earlier caller still holds
    last,                   \* history: what the last operation did
    steps,                  \* operations performed so far
    memo,                   \* st.cache_data's store for run_query: text -> entry, or NoEntry
    clock,                  \* seconds since the process started
    threads                 \* render passes inside a generator: thread -> its frame

vars == << salt, rng, now, sample_data_cache, pristine, constructed, acquisition,
           connection,
           is_offline, offline_message_shown, notices, ret, kept, last, steps,
           memo, clock, threads >>

---------------------------------------------------------------------------
(* Bounds of the model *)

\* operations in one behaviour
MaxSteps == 3
\* members of the PRNG stream family
MaxSalt == 2
\* clock ticks
MaxNow == 1
\* regions, age groups, occupations of the enumerations that are used
NRegions == 2
NAgeGroups == 2
NOccupations == 1
\* rows of the raw / correlation / audit / timeline tables (100, 80, 20, 30 in the code)
NRecords == 2

(* Program constants *)
RiskSeed == 42
BankSeed == 42
InsuranceSeed == 43
CorrelationSeed == 44
CompositeSeed == 45

---------------------------------------------------------------------------
(* Row Sets (pandas DataFrame): column names and rows of cells, by position *)

RowSet(cols, rows) == [cols |-> cols, rows |-> rows]

\* pd.DataFrame(): no columns, no rows
EmptyRowSet == RowSet(<< >>, << >>)

\* a missing cache entry
NoEntry == [none |-> TRUE]

\* DataFrame.empty: any axis of length 0
IsEmpty(df) == Len(df.cols) = 0 \/ Len(df.rows) = 0

HasCol(df, c) == \E i \in 1..Len(df.cols) : df.cols[i] = c
ColIx(df, c) == CHOOSE i \in 1..Len(df.cols) : df.cols[i] = c
Cell(df, r, c) == df.rows[r][ColIx(df, c)]

\* result.columns = [...]: positional rename
SetColumns(df, cols) == RowSet(cols, df.rows)

Min(a, b) == IF a < b THEN a ELSE b
Prefix(s, n) == SubSeq(s, 1, Min(n, Len(s)))

RECURSIVE SumSeq(_)
SumSeq(s) == IF s = << >> THEN 0 ELSE Head(s) + SumSeq(Tail(s))

\* round(x / d) to the nearest integer, ties to even (x >= 0, d > 0)
RoundHalfEven(x, d) ==
    LET q == x \div d
        r == x % d
    IN  IF 2 * r > d \/ (2 * r = d /\ q % 2 = 1) THEN q + 1 ELSE q

---------------------------------------------------------------------------
(* numpy's global PRNG.  The Mersenne Twister stream of a seed is a fixed *)
(* function unknown to the model: the model ranges over a family of       *)
(* streams, one per salt, with draws taken from Palette.                  *)

Palette == << 786, 640, 200, 200, 100, 57, 700, 0, 200, 57, 700, 320, 100 >>

Raw(s, seed, pos) ==
    Palette[((seed * 6 + pos * 5 + s * (pos + 1)) % Len(Palette)) + 1]

\* np.random.seed(n)
Seeded(n) == [seed |-> n, pos |-> 0]
\* the state after one draw, after n draws
Advance(g) == [g EXCEPT !.pos = @ + 1]
Skip(g, n) == [g EXCEPT !.pos = @ + n]
\* np.random.random(): u, in thousandths
Random(s, g) == Raw(s, g.seed, g.pos)
\* np.random.randint(lo, hi): lo .. hi - 1
RandIntOf(u, lo, hi) == lo + ((u * (hi - lo)) \div 1000)
RandInt(s, g, lo, hi) == RandIntOf(Raw(s, g.seed, g.pos), lo, hi)
\* np.random.uniform(lo, hi), in thousandths
Uniform3(s, g, lo, hi) == lo * 1000 + Raw(s, g.seed, g.pos) * (hi - lo)
\* np.random.choice(list)
Choice(s, g, list) == list[1 + ((Raw(s, g.seed, g.pos) * Len(list)) \div 1000)]

---------------------------------------------------------------------------
(* get_sample_risk_data *)

regions == Prefix(<< "Northeast", "Southeast", "Midwest", "West" >>, NRegions)
age_groups == Prefix(<< "18-24", "25-34", "35-44", "45-54", "55-64", "65+" >>, NAgeGroups)
occupations ==
    Prefix(<< "Technology", "Healthcare", "Finance", "Education", "Manufacturing",
              "Retail" >>, NOccupations)
risk_categories == << "LOW", "MEDIUM", "HIGH", "CRITICAL" >>

RiskColumns ==
    << "ANALYSIS_ID", "AGE_GROUP", "REGION", "OCCUPATION_CATEGORY", "RECORD_COUNT",
       "AVG_BANK_RISK_SCORE", "AVG_INSURANCE_RISK_SCORE", "COMPOSITE_RISK_SCORE",
       "RISK_CATEGORY", "FRAUD_CORRELATION_SCORE" >>

\* composite, in ten-thousandths, of bank and insurance in thousandths
Composite4(bank3, ins3) == 6 * bank3 + 4 * ins3

\* the threshold table applied to the unrounded composite
CategoryOf4(c4) ==
    IF c4 >= 750000 THEN "CRITICAL"
    ELSE IF c4 >= 500000 THEN "HIGH"
    ELSE IF c4 >= 250000 THEN "MEDIUM"
    ELSE "LOW"

\* one combination of the triple loop: the record it appends, if any, and the PRNG after it
\* the record data.append(...) adds for the values drawn: scores in thousandths, the
\* composite in ten-thousandths, the stored values in hundredths
RiskRow(n, region, age_group, occupation, record_count, bank_risk, insurance_risk, fraud4) ==
    LET composite == Composite4(bank_risk, insurance_risk)
    IN  << n, age_group, region, occupation, record_count,
           RoundHalfEven(bank_risk, 10), RoundHalfEven(insurance_risk, 10),
           RoundHalfEven(composite, 100), CategoryOf4(composite),
           RoundHalfEven(fraud4, 100) >>

RiskRecord(s, g, n, region, age_group, occupation) ==
    IF Random(s, g) > 600
    THEN [rows |-> << RiskRow(n, region, age_group, occupation,
                              RandInt(s, Skip(g, 1), 3, 25),
                              Uniform3(s, Skip(g, 2), 15, 85),
                              Uniform3(s, Skip(g, 3), 15, 85),
                              500 + 8 * Random(s, Skip(g, 4))) >>,
          rng |-> Skip(g, 5)]
    ELSE [rows |-> << >>, rng |-> Skip(g, 1)]

\* the k-th combination (0-based) of regions x age_groups x occupations, in loop order
ComboRegion(k) == regions[1 + (k \div (Len(age_groups) * Len(occupations)))]
ComboAge(k) == age_groups[1 + ((k \div Len(occupations)) % Len(age_groups))]
ComboOccupation(k) == occupations[1 + (k % Len(occupations))]
NCombos == Len(regions) * Len(age_groups) * Len(occupations)

RECURSIVE RiskLoop(_, _, _, _)
RiskNext(s, k, data, step) == RiskLoop(s, step.rng, k + 1, data \o step.rows)
RiskLoop(s, g, k, data) ==
    IF k >= NCombos THEN [rows |-> data, rng |-> g]
    ELSE RiskNext(s, k, data,
                  RiskRecord(s, g, Len(data) + 1, ComboRegion(k), ComboAge(k),
                             ComboOccupation(k)))

\* pd.DataFrame(data): a list of no records has no columns
FrameOf(cols, rows) == IF rows = << >> THEN EmptyRowSet ELSE RowSet(cols, rows)

\* df = pd.DataFrame(data), with the PRNG state the loop left
Framed(cols, out) == [df |-> FrameOf(cols, out.rows), rng |-> out.rng]

\* the body of get_sample_risk_data after the cache test: [df, rng]
GenerateRiskData(s) == Framed(RiskColumns, RiskLoop(s, Seeded(RiskSeed), 0, << >>))

---------------------------------------------------------------------------
(* The other generators.  Each is [df, rng]: the frame built after the cache *)
(* test and the PRNG state left behind; t is pd.Timestamp.now(), in hours.   *)

\* get_sample_questions
GenerateQuestions(g, t) ==
    [df |-> RowSet(<< "QUESTION_ID", "QUESTION_TEXT", "CATEGORY", "AI_SUMMARY",
                      "LAST_REFRESHED" >>,
                   << << "Q001", "What is the overall risk distribution across customer segments?",
                         "Risk Overview", "summary Q001", t >>,
                      << "Q002", "Which age groups show the highest risk scores?",
                         "Age Analysis", "summary Q002", t >>,
                      << "Q003", "What are the regional risk hotspots?",
                         "Regional Analysis", "summary Q003", t >> >>),
     rng |-> g]

\* get_sample_fraud_signals
GenerateFraudSignals(g, t) ==
    [df |-> RowSet(<< "SIGNAL_ID", "AGE_GROUP", "REGION", "PATTERN_DESCRIPTION",
                      "AFFECTED_CUSTOMER_COUNT", "CONFIDENCE_SCORE", "DETECTED_AT" >>,
                   << << "FS001", "35-44", "Midwest", "pattern FS001", 12, 87, t - 5 * 24 >>,
                      << "FS002", "45-54", "Southeast", "pattern FS002", 8, 72,
                         t - 12 * 24 >> >>),
     rng |-> g]

\* get_sample_compliance_log
GenerateComplianceLog(g, t) ==
    [df |-> RowSet(<< "COMPLIANCE_ID", "CHECK_TYPE", "TABLE_NAME", "CHECK_RESULT", "DETAILS",
                      "CHECKED_AT" >>,
                   << << "C001", "K_ANONYMITY", "risk_join_aggregated", "PASSED",
                         "All segments meet k>=3 requirement", t - 2 >>,
                      << "C002", "DATA_QUALITY", "bank_customer_risk_summary", "PASSED",
                         "No data quality issues detected", t - 4 >>,
                      << "C003", "MASKING", "insurance_claim_risk_summary", "PASSED",
                         "All masking policies are active", t - 6 >> >>),
     rng |-> g]

AllAgeGroups == << "18-24", "25-34", "35-44", "45-54", "55-64", "65+" >>
AllRegions == << "Northeast", "Southeast", "Midwest", "West" >>

\* one record of the bank / insurance raw tables: four draws
RawRecord(s, g, i) ==
    << i, Choice(s, g, AllAgeGroups), Choice(s, Skip(g, 1), AllRegions),
       RoundHalfEven(Uniform3(s, Skip(g, 2), 15, 85), 10), RandInt(s, Skip(g, 3), 0, 3) >>

RECURSIVE RawLoop(_, _, _, _)
RawLoop(s, g, i, data) ==
    IF i > NRecords THEN [rows |-> data, rng |-> g]
    ELSE RawLoop(s, Skip(g, 4), i + 1, Append(data, RawRecord(s, g, i)))

\* get_sample_bank_data
GenerateBankData(s) ==
    Framed(<< "CUSTOMER_ID", "AGE_GROUP", "REGION", "RISK_SCORE", "FRAUD_FLAG_HISTORY" >>,
           RawLoop(s, Seeded(BankSeed), 1, << >>))

\* get_sample_insurance_data
GenerateInsuranceData(s) ==
    Framed(<< "CUSTOMER_ID", "AGE_GROUP", "REGION", "RISK_SCORE", "SUSPICIOUS_CLAIM_FLAGS" >>,
           RawLoop(s, Seeded(InsuranceSeed), 1, << >>))

\* one record of the correlation table: six draws
CorrelationRecord(s, g) ==
    << Choice(s, g, AllAgeGroups), Choice(s, Skip(g, 1), AllRegions),
       RoundHalfEven(Uniform3(s, Skip(g, 2), 20, 80), 10),
       RoundHalfEven(Uniform3(s, Skip(g, 3), 20, 80), 10),
       RandInt(s, Skip(g, 4), 0, 2), RandInt(s, Skip(g, 5), 0, 2) >>

RECURSIVE CorrelationLoop(_, _, _, _)
CorrelationLoop(s, g, i, data) ==
    IF i > NRecords THEN [rows |-> data, rng |-> g]
    ELSE CorrelationLoop(s, Skip(g, 6), i + 1, Append(data, CorrelationRecord(s, g)))

\* get_sample_correlation_data
GenerateCorrelationData(s) ==
    Framed(<< "AGE_GROUP", "REGION", "BANK_RISK", "INSURANCE_RISK", "FRAUD_FLAG_HISTORY",
              "SUSPICIOUS_CLAIM_FLAGS" >>,
           CorrelationLoop(s, Seeded(CorrelationSeed), 1, << >>))

risk_drivers == << "Bank-Driven", "Insurance-Driven", "Balanced" >>

RECURSIVE CompositeLoop(_, _, _, _)
CompositeLoop(s, g, k, data) ==
    IF k >= Len(risk_categories) * Len(risk_drivers) THEN [rows |-> data, rng |-> g]
    ELSE CompositeLoop(s, Skip(g, 2), k + 1,
                       Append(data, << risk_categories[1 + (k \div Len(risk_drivers))],
                                       risk_drivers[1 + (k % Len(risk_drivers))],
                                       RandInt(s, g, 5, 30),
                                       RandInt(s, Advance(g), 50, 500) >>))

\* get_sample_composite_risk_data
GenerateCompositeRiskData(s) ==
    Framed(<< "COMPOSITE_RISK_CATEGORY", "RISK_DRIVER", "SEGMENT_COUNT", "CUSTOMER_COUNT" >>,
           CompositeLoop(s, Seeded(CompositeSeed), 0, << >>))

users == << "john.doe", "jane.smith", "bob.johnson" >>
roles == << "ANALYST", "RISK_ANALYST", "RISK_MANAGER" >>

RECURSIVE AuditLoop(_, _, _, _, _)
AuditLoop(s, g, t, i, data) ==
    IF i > NRecords THEN [rows |-> data, rng |-> g]
    ELSE AuditLoop(s, Skip(g, 4), t, i + 1,
                   Append(data, << i, Choice(s, g, users), Choice(s, Skip(g, 1), roles),
                                   "SELECT",
                                   "SELECT * FROM analytics.risk_join_aggregated WHERE...",
                                   RandInt(s, Skip(g, 2), 10, 500),
                                   t - RandInt(s, Skip(g, 3), 1, 72) >>))

\* get_sample_access_audit_data: no np.random.seed, the draws continue the global stream
GenerateAccessAuditData(s, g, t) ==
    Framed(<< "AUDIT_ID", "USER_NAME", "ROLE_NAME", "QUERY_TYPE", "QUERY_TEXT", "ROW_COUNT",
              "EXECUTED_AT" >>,
           AuditLoop(s, g, t, 1, << >>))

\* get_sample_user_access_summary
GenerateUserAccessSummary(g, t) ==
    [df |-> RowSet(<< "USER_NAME", "ROLE_NAME", "QUERY_COUNT", "ROWS_ACCESSED", "FIRST_ACCESS",
                      "LAST_ACCESS" >>,
                   << << "john.doe", "ANALYST", 45, 12500, t - 30 * 24, t - 2 >>,
                      << "jane.smith", "RISK_ANALYST", 67, 23400, t - 25 * 24, t - 1 >>,
                      << "bob.johnson", "RISK_MANAGER", 28, 8900, t - 20 * 24, t - 5 >> >>),
     rng |-> g]

RECURSIVE TimelineLoop(_, _, _, _, _)
TimelineLoop(s, g, t, i, data) ==
    IF i >= NRecords THEN [rows |-> data, rng |-> g]
    ELSE TimelineLoop(s, Skip(g, 3), t, i + 1,
                      Append(data, << (t - 24 * (30 - i)) \div 24,
                                      RandInt(s, g, 50, 200), RandInt(s, Skip(g, 1), 3, 8),
                                      RandInt(s, Skip(g, 2), 5000, 25000) >>))

\* get_sample_timeline_data: no np.random.seed either
GenerateTimelineData(s, g, t) ==
    Framed(<< "ACCESS_DATE", "QUERY_COUNT", "UNIQUE_USERS", "ROWS_ACCESSED" >>,
           TimelineLoop(s, g, t, 0, << >>))

---------------------------------------------------------------------------
(* The process-wide cache and the handles callers get.  A handle is either *)
(* an object of the caller's own (DataFrame.copy()) or the cached object   *)
(* itself; reading or mutating a handle goes to the object it names.       *)

GenKeys ==
    { "risk_data", "questions", "fraud", "compliance", "bank_raw", "insurance_raw",
      "correlation", "composite_risk", "access_audit", "user_access", "timeline" }

Own(df) == [ref |-> "own", val |-> df]
Shared(key) == [ref |-> key, val |-> EmptyRowSet]
\* Python's None where a frame is expected; no value at all (the call raised)
NoneHandle == [ref |-> "None", val |-> EmptyRowSet]
NoHandle == [ref |-> "raised", val |-> EmptyRowSet]

Deref(h, cache) == IF h.ref \in DOMAIN cache THEN cache[h.ref] ELSE h.val

\* mutant: the cached frame itself is returned
CopyCached_alias(key, cache) == Shared(key)

\* _sample_data_cache[key].copy(): an independent object with the cached content
CopyCached(key, cache) == Own(cache[key])
\* df.copy() of the frame just stored under key
CopyFresh(key, df) == Own(df)

\* mutant: get_sample_risk_data without np.random.seed(42)
Generate_unseeded(key, s, g, t) ==
    CASE key = "risk_data" -> Framed(RiskColumns, RiskLoop(s, g, 0, << >>))
      [] key = "questions" -> GenerateQuestions(g, t)
      [] key = "fraud" -> GenerateFraudSignals(g, t)
      [] key = "compliance" -> GenerateComplianceLog(g, t)
      [] key = "bank_raw" -> GenerateBankData(s)
      [] key = "insurance_raw" -> GenerateInsuranceData(s)
      [] key = "correlation" -> GenerateCorrelationData(s)
      [] key = "composite_risk" -> GenerateCompositeRiskData(s)
      [] key = "access_audit" -> GenerateAccessAuditData(s, g, t)
      [] key = "user_access" -> GenerateUserAccessSummary(g, t)
      [] key = "timeline" -> GenerateTimelineData(s, g, t)

\* what a generator builds on a cache miss
Generate(key, s, g, t) ==
    CASE key = "risk_data" -> GenerateRiskData(s)
      [] key = "questions" -> GenerateQuestions(g, t)
      [] key = "fraud" -> GenerateFraudSignals(g, t)
      [] key = "compliance" -> GenerateComplianceLog(g, t)
      [] key = "bank_raw" -> GenerateBankData(s)
      [] key = "insurance_raw" -> GenerateInsuranceData(s)
      [] key = "correlation" -> GenerateCorrelationData(s)
      [] key = "composite_risk" -> GenerateCompositeRiskData(s)
      [] key = "access_audit" -> GenerateAccessAuditData(s, g, t)
      [] key = "user_access" -> GenerateUserAccessSummary(g, t)
      [] key = "timeline" -> GenerateTimelineData(s, g, t)

\* get_sample_<key>(): the cache test, the generation, the store, the copy.
\* w is the world the call runs in, [cache, rng, made]; the result adds the handle df.
Store(key, w, out) ==
    [df |-> CopyFresh(key, out.df),
     cache |-> [w.cache EXCEPT ![key] = out.df],
     rng |-> out.rng,
     made |-> [w.made EXCEPT ![key] = out.df]]

\* mutant: the generator without its cache test
get_sample_regenerates(key, s, t, w) == Store(key, w, Generate(key, s, w.rng, t))

get_sample(key, s, t, w) ==
    IF w.cache[key] # NoEntry
    THEN [df |-> CopyCached(key, w.cache), cache |-> w.cache, rng |-> w.rng, made |-> w.made]
    ELSE Store(key, w, Generate(key, s, w.rng, t))

---------------------------------------------------------------------------
(* Query texts and the classifier of _get_sample_data_for_query *)

Tokens ==
    { "group by age_group", "critical_count", "risk_join_aggregated", "where", "age_group in",
      "region in", "count(*)", "group by risk_category", "avg_risk_score", "customer_count",
      "group by region", "case", "composite_risk_score >=", "group by composite_risk_category",
      "sum(record_count)", "approved_questions_cache", "fraud_cross_signals",
      "privacy_compliance_log", "group by", "check_type", "b.region = i.region",
      "b.age_group = i.age_group", "b.customer_id = i.customer_id", "bank_risk",
      "insurance_risk", "union all", "bank_customer_risk_summary",
      "insurance_claim_risk_summary", "composite_risk_category", "risk_driver",
      "access_audit_log", "date(executed_at)", "group by user_name",
      "count(distinct user_name)", "explain_risk_anomaly", "ai_insights" }

GroupByTokens ==
    { "group by age_group", "group by risk_category", "group by region",
      "group by composite_risk_category", "group by user_name" }

\* a text that contains a token contains the tokens that are substrings of it
Closure(toks) ==
    toks \cup (IF toks \cap GroupByTokens # {} THEN { "group by" } ELSE {})
         \cup (IF "group by composite_risk_category" \in toks
               THEN { "composite_risk_category" } ELSE {})

Text(upper, toks) == [upper |-> upper, toks |-> Closure(toks)]

\* Python's None passed where the text is expected
NoneText == [upper |-> FALSE, toks |-> { "None" }]

\* sql.lower()
Lower(sql) == [upper |-> FALSE, toks |-> sql.toks]

\* tok in sql_lower: the substring test is case-sensitive
Contains(tok, sql_lower) == ~sql_lower.upper /\ tok \in sql_lower.toks

\* the chain of tests, in the order of the code: the tag of the branch that answers
Classify_fraud_first(sql_lower) ==
    LET in(tok) == Contains(tok, sql_lower)
    IN  IF in("group by age_group") /\ in("critical_count") /\ in("risk_join_aggregated")
        THEN "age_group_special"
        ELSE IF in("risk_join_aggregated")
        THEN IF in("count(*)") /\ in("group by risk_category") THEN "risk_category_distribution"
             ELSE IF in("group by age_group")
             THEN IF in("avg_risk_score") /\ in("customer_count") THEN "age_group_scores"
                  ELSE "age_group_breakdown"
             ELSE IF in("group by region")
             THEN IF in("count(*)") THEN "region_segments" ELSE "region_aggregation"
             ELSE IF in("case") /\ in("composite_risk_score >=")
                     /\ in("group by composite_risk_category")
             THEN "risk_composite_case"
             ELSE IF in("count(*)") /\ in("sum(record_count)") THEN "risk_summary"
             ELSE "risk_table_scan"
        ELSE IF in("fraud_cross_signals") THEN "fraud_signals"
        ELSE IF in("approved_questions_cache") THEN "approved_questions"
        ELSE IF in("privacy_compliance_log")
        THEN IF in("group by") /\ in("check_type") THEN "compliance_grouped"
             ELSE "compliance_log"
        ELSE IF in("b.region = i.region") /\ in("group by region") THEN "region_join"
        ELSE IF in("b.age_group = i.age_group") /\ in("group by age_group")
        THEN "age_group_join"
        ELSE IF in("b.customer_id = i.customer_id") \/ (in("bank_risk") /\ in("insurance_risk"))
        THEN "correlation"
        ELSE IF in("union all") /\ in("bank_customer_risk_summary")
                /\ in("insurance_claim_risk_summary")
        THEN "union_summary"
        ELSE IF in("bank_customer_risk_summary") THEN "bank_raw"
        ELSE IF in("insurance_claim_risk_summary") THEN "insurance_raw"
        ELSE IF in("composite_risk_category") \/ in("risk_driver") THEN "composite_by_driver"
        ELSE IF in("access_audit_log")
        THEN IF in("date(executed_at)") /\ in("group by") THEN "audit_timeline"
             ELSE IF in("group by user_name") THEN "audit_by_user"
             ELSE IF in("count(*)") /\ in("count(distinct user_name)") /\ ~in("group by")
             THEN "audit_summary"
             ELSE "audit_log"
        ELSE IF in("explain_risk_anomaly") \/ in("ai_insights") THEN "ai_explanation"
        ELSE "default"

Classify(sql_lower) ==
    LET in(tok) == Contains(tok, sql_lower)
    IN  IF in("group by age_group") /\ in("critical_count") /\ in("risk_join_aggregated")
        THEN "age_group_special"
        ELSE IF in("risk_join_aggregated")
        THEN IF in("count(*)") /\ in("group by risk_category") THEN "risk_category_distribution"
             ELSE IF in("group by age_group")
             THEN IF in("avg_risk_score") /\ in("customer_count") THEN "age_group_scores"
                  ELSE "age_group_breakdown"
             ELSE IF in("group by region")
             THEN IF in("count(*)") THEN "region_segments" ELSE "region_aggregation"
             ELSE IF in("case") /\ in("composite_risk_score >=")
                     /\ in("group by composite_risk_category")
             THEN "risk_composite_case"
             ELSE IF in("count(*)") /\ in("sum(record_count)") THEN "risk_summary"
             ELSE "risk_table_scan"
        ELSE IF in("approved_questions_cache") THEN "approved_questions"
        ELSE IF in("fraud_cross_signals") THEN "fraud_signals"
        ELSE IF in("privacy_compliance_log")
        THEN IF in("group by") /\ in("check_type") THEN "compliance_grouped"
             ELSE "compliance_log"
        ELSE IF in("b.region = i.region") /\ in("group by region") THEN "region_join"
        ELSE IF in("b.age_group = i.age_group") /\ in("group by age_group")
        THEN "age_group_join"
        ELSE IF in("b.customer_id = i.customer_id") \/ (in("bank_risk") /\ in("insurance_risk"))
        THEN "correlation"
        ELSE IF in("union all") /\ in("bank_customer_risk_summary")
                /\ in("insurance_claim_risk_summary")
        THEN "union_summary"
        ELSE IF in("bank_customer_risk_summary") THEN "bank_raw"
        ELSE IF in("insurance_claim_risk_summary") THEN "insurance_raw"
        ELSE IF in("composite_risk_category") \/ in("risk_driver") THEN "composite_by_driver"
        ELSE IF in("access_audit_log")
        THEN IF in("date(executed_at)") /\ in("group by") THEN "audit_timeline"
             ELSE IF in("group by user_name") THEN "audit_by_user"
             ELSE IF in("count(*)") /\ in("count(distinct user_name)") /\ ~in("group by")
             THEN "audit_summary"
             ELSE "audit_log"
        ELSE IF in("explain_risk_anomaly") \/ in("ai_insights") THEN "ai_explanation"
        ELSE "default"

---------------------------------------------------------------------------
(* The mock result synthesizer: group-and-reduce over the base dataset *)

\* the order pandas' groupby leaves the keys in: sorted
SortedAgeGroups == << "18-24", "25-34", "35-44", "45-54", "55-64", "65+" >>
SortedRegions == << "Midwest", "Northeast", "Southeast", "West" >>
SortedCategories == << "CRITICAL", "HIGH", "LOW", "MEDIUM" >>
SortedCheckTypes == << "DATA_QUALITY", "K_ANONYMITY", "MASKING" >>
SortedCheckResults == << "FAILED", "PASSED", "WARNING" >>

\* df[df[col] == v]
RowsWith(df, col, v) ==
    LET ix == ColIx(df, col)
        Test(r) == r[ix] = v
    IN  SelectSeq(df.rows, Test)

\* the group keys of df.groupby(col), in order
GroupKeys(df, col, sorted) ==
    LET Test(k) == RowsWith(df, col, k) # << >>
    IN  SelectSeq(sorted, Test)

\* rows[col].sum()
ColumnSum(df, rows, col) ==
    LET ix == ColIx(df, col)
    IN  SumSeq([i \in 1..Len(rows) |-> rows[i][ix]])

\* rows[col].mean().round(2), of a column of hundredths
ColumnMeanRounded(df, rows, col) == RoundHalfEven(ColumnSum(df, rows, col), Len(rows))

\* mutant: the groups' sizes in place of the sums of their record counts
GroupSumMean_sizes(df, col, sorted) ==
    LET keys == GroupKeys(df, col, sorted)
    IN  [i \in 1..Len(keys) |->
            LET rows == RowsWith(df, col, keys[i])
            IN  << keys[i], Len(rows), ColumnMeanRounded(df, rows, "COMPOSITE_RISK_SCORE") >>]

\* df.groupby(col).agg({'RECORD_COUNT': 'sum', 'COMPOSITE_RISK_SCORE': 'mean'}).reset_index()
\* with the mean column rounded
GroupSumMean(df, col, sorted) ==
    LET keys == GroupKeys(df, col, sorted)
    IN  [i \in 1..Len(keys) |->
            LET rows == RowsWith(df, col, keys[i])
            IN  << keys[i], ColumnSum(df, rows, "RECORD_COUNT"),
                   ColumnMeanRounded(df, rows, "COMPOSITE_RISK_SCORE") >>]

\* mutant: the category mask alone, without the age mask
CategoryCount_all_ages(df, age_group, category) ==
    LET ic == ColIx(df, "RISK_CATEGORY")
        Test(r) == r[ic] = category
    IN  ColumnSum(df, SelectSeq(df.rows, Test), "RECORD_COUNT")

\* int(df[age_mask & (df['RISK_CATEGORY'] == category)]['RECORD_COUNT'].sum())
CategoryCount(df, age_group, category) ==
    LET ia == ColIx(df, "AGE_GROUP")
        ic == ColIx(df, "RISK_CATEGORY")
        Test(r) == r[ia] = age_group /\ r[ic] = category
    IN  ColumnSum(df, SelectSeq(df.rows, Test), "RECORD_COUNT")

\* the four count columns set row by row
WithCategoryCounts(df, rows) ==
    [i \in 1..Len(rows) |->
        rows[i] \o << CategoryCount(df, rows[i][1], "CRITICAL"),
                      CategoryCount(df, rows[i][1], "HIGH"),
                      CategoryCount(df, rows[i][1], "MEDIUM"),
                      CategoryCount(df, rows[i][1], "LOW") >>]

BreakdownColumns ==
    << "AGE_GROUP", "TOTAL_CUSTOMERS", "AVG_RISK", "CRITICAL_COUNT", "HIGH_COUNT",
       "MEDIUM_COUNT", "LOW_COUNT" >>

\* the special case keyed on critical_count
AgeGroupSpecialCase(df) ==
    RowSet(BreakdownColumns,
           WithCategoryCounts(df, GroupSumMean(df, "AGE_GROUP", SortedAgeGroups)))

\* mutant: the Home page's query gets the other page's column names
AgeGroupScores_renamed(df) ==
    RowSet(<< "AGE_GROUP", "TOTAL_CUSTOMERS", "AVG_RISK" >>,
           GroupSumMean(df, "AGE_GROUP", SortedAgeGroups))

\* group by age_group, the Home page's columns
AgeGroupScores(df) ==
    RowSet(<< "AGE_GROUP", "CUSTOMER_COUNT", "AVG_RISK_SCORE" >>,
           GroupSumMean(df, "AGE_GROUP", SortedAgeGroups))

\* group by age_group, the else branch
AgeGroupBreakdown(df) ==
    RowSet(BreakdownColumns,
           WithCategoryCounts(df, GroupSumMean(df, "AGE_GROUP", SortedAgeGroups)))

\* mutant: the result reindexed over all four categories, absent ones with zero counts
RiskCategoryDistribution_reindexed(df) ==
    RowSet(<< "RISK_CATEGORY", "SEGMENT_COUNT", "CUSTOMER_COUNT", "AVG_RISK_SCORE" >>,
           [i \in 1..Len(SortedCategories) |->
               LET rows == RowsWith(df, "RISK_CATEGORY", SortedCategories[i])
               IN  << SortedCategories[i], Len(rows), ColumnSum(df, rows, "RECORD_COUNT"),
                      IF rows = << >> THEN 0
                      ELSE ColumnMeanRounded(df, rows, "COMPOSITE_RISK_SCORE") >>])

\* count(*) ... group by risk_category
RiskCategoryDistribution(df) ==
    LET keys == GroupKeys(df, "RISK_CATEGORY", SortedCategories)
    IN  RowSet(<< "RISK_CATEGORY", "SEGMENT_COUNT", "CUSTOMER_COUNT", "AVG_RISK_SCORE" >>,
               [i \in 1..Len(keys) |->
                   LET rows == RowsWith(df, "RISK_CATEGORY", keys[i])
                   IN  << keys[i], Len(rows), ColumnSum(df, rows, "RECORD_COUNT"),
                          ColumnMeanRounded(df, rows, "COMPOSITE_RISK_SCORE") >>])

\* group by region, without and with count(*)
RegionAggregation(df) ==
    RowSet(<< "REGION", "CUSTOMER_COUNT", "AVG_RISK" >>,
           GroupSumMean(df, "REGION", SortedRegions))

RegionSegments(df) ==
    LET rows == GroupSumMean(df, "REGION", SortedRegions)
    IN  RowSet(<< "REGION", "CUSTOMER_COUNT", "AVG_RISK", "SEGMENT_COUNT" >>,
               [i \in 1..Len(rows) |->
                   Append(rows[i], Len(RowsWith(df, "REGION", rows[i][1])))])

\* a mean that is not rounded: the exact quotient num / den of hundredths
ExactMean(num, den) == [num |-> num, den |-> den]

\* the one-row summary statistics
RiskSummary(df) ==
    LET ic == ColIx(df, "RISK_CATEGORY")
        High(r) == r[ic] \in { "HIGH", "CRITICAL" }
    IN  RowSet(<< "TOTAL_SEGMENTS", "TOTAL_CUSTOMERS", "AVG_RISK", "HIGH_RISK_COUNT" >>,
               << << Len(df.rows), ColumnSum(df, df.rows, "RECORD_COUNT"),
                     ExactMean(ColumnSum(df, df.rows, "COMPOSITE_RISK_SCORE"), Len(df.rows)),
                     ColumnSum(df, SelectSeq(df.rows, High), "RECORD_COUNT") >> >>)

\* df.groupby(['CHECK_TYPE', 'CHECK_RESULT']).size(), then LAST_CHECK = df['CHECKED_AT'].max()
RECURSIVE MaxSeq(_)
MaxSeq(s) ==
    IF Len(s) = 1 THEN Head(s)
    ELSE LET m == MaxSeq(Tail(s)) IN IF Head(s) > m THEN Head(s) ELSE m

ComplianceGrouped(df) ==
    LET it == ColIx(df, "CHECK_TYPE")
        ir == ColIx(df, "CHECK_RESULT")
        ia == ColIx(df, "CHECKED_AT")
        pairs == [k \in 1..(Len(SortedCheckTypes) * Len(SortedCheckResults)) |->
                     << SortedCheckTypes[1 + ((k - 1) \div Len(SortedCheckResults))],
                        SortedCheckResults[1 + ((k - 1) % Len(SortedCheckResults))] >>]
        Size(p) == Len(SelectSeq(df.rows, LAMBDA r : r[it] = p[1] /\ r[ir] = p[2]))
        present == SelectSeq(pairs, LAMBDA p : Size(p) > 0)
        last_check == MaxSeq([i \in 1..Len(df.rows) |-> df.rows[i][ia]])
    IN  RowSet(<< "CHECK_TYPE", "CHECK_RESULT", "CHECK_COUNT", "LAST_CHECK" >>,
               [i \in 1..Len(present) |->
                   << present[i][1], present[i][2], Size(present[i]), last_check >>])

---------------------------------------------------------------------------
(* Join simulations and the remaining shapes *)

\* the region comparison: three draws per region from the global stream, as it stands
RECURSIVE RegionJoinLoop(_, _, _, _)
RegionJoinLoop(s, g, k, data) ==
    IF k > Len(regions) THEN [rows |-> data, rng |-> g]
    ELSE LET bank_risk == RoundHalfEven(Uniform3(s, g, 45, 75), 10)
             insurance_risk == RoundHalfEven(Uniform3(s, Skip(g, 1), 45, 75), 10)
         IN  RegionJoinLoop(s, Skip(g, 3), k + 1,
                            Append(data, << regions[k], bank_risk, insurance_risk,
                                            RandInt(s, Skip(g, 2), 50, 200),
                                            bank_risk - insurance_risk >>))

RegionJoin(s, g) ==
    Framed(<< "REGION", "BANK_AVG_RISK", "INSURANCE_AVG_RISK", "CUSTOMER_COUNT",
              "RISK_DIFFERENCE" >>,
           RegionJoinLoop(s, g, 1, << >>))

Abs(x) == IF x < 0 THEN -x ELSE x

\* the age group comparison
RECURSIVE AgeGroupJoinLoop(_, _, _, _)
AgeGroupJoinLoop(s, g, k, data) ==
    IF k > Len(age_groups) THEN [rows |-> data, rng |-> g]
    ELSE LET bank_risk == RoundHalfEven(Uniform3(s, g, 40, 80), 10)
             insurance_risk == RoundHalfEven(Uniform3(s, Skip(g, 1), 40, 80), 10)
         IN  AgeGroupJoinLoop(s, Skip(g, 3), k + 1,
                              Append(data, << age_groups[k], bank_risk, insurance_risk,
                                              RandInt(s, Skip(g, 2), 30, 150),
                                              Abs(bank_risk - insurance_risk) >>))

AgeGroupJoin(s, g) ==
    Framed(<< "AGE_GROUP", "BANK_AVG_RISK", "INSURANCE_AVG_RISK", "CUSTOMER_COUNT",
              "RISK_GAP" >>,
           AgeGroupJoinLoop(s, g, 1, << >>))

RECURSIVE MinSeq(_)
MinSeq(s) ==
    IF Len(s) = 1 THEN Head(s)
    ELSE LET m == MinSeq(Tail(s)) IN IF Head(s) < m THEN Head(s) ELSE m

\* Series.std() of hundredths (ddof = 1), to the hundredth below; NaN for a single value
StdDev(xs) ==
    LET n == Len(xs)
        sum == SumSeq(xs)
        squares == SumSeq([i \in 1..n |-> xs[i] * xs[i]])
        variance == (n * squares - sum * sum) \div (n * (n - 1))
    IN  IF n < 2 THEN "NaN"
        ELSE CHOOSE k \in 0..10000 : k * k <= variance /\ variance < (k + 1) * (k + 1)

\* one row of the union of the two organizations
OrganizationStats(organization, df) ==
    LET ix == ColIx(df, "RISK_SCORE")
        scores == [i \in 1..Len(df.rows) |-> df.rows[i][ix]]
    IN  << organization, Len(df.rows), RoundHalfEven(SumSeq(scores), Len(scores)),
           MinSeq(scores), MaxSeq(scores), StdDev(scores) >>

UnionSummary(bank_df, insurance_df) ==
    RowSet(<< "ORGANIZATION", "RECORD_COUNT", "AVG_RISK_SCORE", "MIN_RISK", "MAX_RISK",
              "RISK_STDDEV" >>,
           << OrganizationStats("Bank", bank_df), OrganizationStats("Insurance", insurance_df) >>)

\* the audit summary (no GROUP BY)
AuditSummary(df) ==
    LET iu == ColIx(df, "USER_NAME")
    IN  RowSet(<< "TOTAL_QUERIES", "UNIQUE_USERS", "ACTIVE_DAYS", "TOTAL_ROWS_ACCESSED" >>,
               << << Len(df.rows),
                     Cardinality({ df.rows[i][iu] : i \in 1..Len(df.rows) }),
                     7,
                     ColumnSum(df, df.rows, "ROW_COUNT") >> >>)

AIExplanation ==
    RowSet(<< "EXPLANATION", "AI_SUMMARY" >>,
           << << "This segment shows elevated risk patterns",
                 "Risk analysis indicates moderate correlation" >> >>)

---------------------------------------------------------------------------
(* _get_sample_data_for_query.  The result is the world after the call,   *)
(* [cache, rng, made], with the handle returned (df), the st.error        *)
(* notices emitted (errors) and whether the call raised (raised).         *)

Out(h, w) ==
    [df |-> h, cache |-> w.cache, rng |-> w.rng, made |-> w.made, errors |-> 0,
     raised |-> FALSE]

\* return the frame a generator handed over
Returned(w) == Out(w.df, w)

\* a frame built from the draws of a join simulation
Drawn(w, out) == Out(Own(out.df), [w EXCEPT !.rng = out.rng])

\* mutant: the default branch returns None
DefaultResult_none(w) ==
    [df |-> NoneHandle, cache |-> w.cache, rng |-> w.rng, made |-> w.made, errors |-> 0,
     raised |-> FALSE]

\* else: return pd.DataFrame()
DefaultResult(w) == Out(Own(EmptyRowSet), w)

\* mutant: the except block raises the exception again
Except_reraises(w) ==
    [df |-> NoHandle, cache |-> w.cache, rng |-> w.rng, made |-> w.made, errors |-> 1,
     raised |-> TRUE]

\* except Exception: st.error(...); return pd.DataFrame()
Except(w) ==
    [df |-> Own(EmptyRowSet), cache |-> w.cache, rng |-> w.rng, made |-> w.made,
     errors |-> 1, raised |-> FALSE]

\* sql.lower() on a value that is no string: raised before the try
Raise(w) ==
    [df |-> NoHandle, cache |-> w.cache, rng |-> w.rng, made |-> w.made, errors |-> 0,
     raised |-> TRUE]

\* the compliance log, grouped
Grouped(w) == Out(Own(ComplianceGrouped(Deref(w.df, w.cache))), w)

\* the union of the two organizations: w1 is the world after get_sample_bank_data()
UnionOf(bank, w2) ==
    IF HasCol(Deref(bank, w2.cache), "RISK_SCORE")
       /\ HasCol(Deref(w2.df, w2.cache), "RISK_SCORE")
    THEN Out(Own(UnionSummary(Deref(bank, w2.cache), Deref(w2.df, w2.cache))), w2)
    ELSE Except(w2)

Union(w1, s, t) == UnionOf(w1.df, get_sample("insurance_raw", s, t, w1))

\* the audit summary: w is the world after get_sample_access_audit_data()
Summarized(w) ==
    IF HasCol(Deref(w.df, w.cache), "USER_NAME")
    THEN Out(Own(AuditSummary(Deref(w.df, w.cache))), w)
    ELSE Except(w)

RiskTags ==
    { "age_group_special", "risk_category_distribution", "age_group_scores",
      "age_group_breakdown", "region_segments", "region_aggregation", "risk_composite_case",
      "risk_summary", "risk_table_scan" }

\* mutant: the fall-through honours a SELECT list of one column
RiskTableScan_first_column(risk) ==
    LET df == Deref(risk.df, risk.cache)
    IN  IF IsEmpty(df) THEN Out(risk.df, risk)
        ELSE Out(Own(RowSet(<< df.cols[1] >>,
                            [i \in 1..Len(df.rows) |-> << df.rows[i][1] >>])), risk)

\* return df: the fall-through of the risk table branch, after the WHERE block that
\* filters nothing
RiskTableScan(risk) == Out(risk.df, risk)

\* the branches that start with df = get_sample_risk_data(): risk is the world after it
SynthesizeRisk(tag, s, t, risk) ==
    LET df == Deref(risk.df, risk.cache)
        OnRisk(col, result) == IF HasCol(df, col) THEN Out(Own(result), risk) ELSE Except(risk)
    IN  CASE tag = "age_group_special" -> OnRisk("AGE_GROUP", AgeGroupSpecialCase(df))
          [] tag = "risk_category_distribution" ->
                OnRisk("RISK_CATEGORY", RiskCategoryDistribution(df))
          [] tag = "age_group_scores" -> OnRisk("AGE_GROUP", AgeGroupScores(df))
          [] tag = "age_group_breakdown" -> OnRisk("AGE_GROUP", AgeGroupBreakdown(df))
          [] tag = "region_segments" -> OnRisk("REGION", RegionSegments(df))
          [] tag = "region_aggregation" -> OnRisk("REGION", RegionAggregation(df))
          [] tag = "risk_composite_case" ->
                Returned(get_sample("composite_risk", s, t, risk))
          [] tag = "risk_summary" -> OnRisk("RECORD_COUNT", RiskSummary(df))
          [] tag = "risk_table_scan" -> RiskTableScan(risk)

\* the branch of tag, run in world w
Synthesize(tag, s, t, w) ==
    IF tag \in RiskTags THEN SynthesizeRisk(tag, s, t, get_sample("risk_data", s, t, w))
    ELSE CASE tag = "approved_questions" ->
                Returned(get_sample("questions", s, t, w))
          [] tag = "fraud_signals" ->
                Returned(get_sample("fraud", s, t, w))
          [] tag = "compliance_grouped" ->
                Grouped(get_sample("compliance", s, t, w))
          [] tag = "compliance_log" ->
                Returned(get_sample("compliance", s, t, w))
          [] tag = "region_join" ->
                Drawn(w, RegionJoin(s, w.rng))
          [] tag = "age_group_join" ->
                Drawn(w, AgeGroupJoin(s, w.rng))
          [] tag = "correlation" ->
                Returned(get_sample("correlation", s, t, w))
          [] tag = "union_summary" ->
                Union(get_sample("bank_raw", s, t, w), s, t)
          [] tag = "bank_raw" ->
                Returned(get_sample("bank_raw", s, t, w))
          [] tag = "insurance_raw" ->
                Returned(get_sample("insurance_raw", s, t, w))
          [] tag = "composite_by_driver" ->
                Returned(get_sample("composite_risk", s, t, w))
          [] tag = "audit_timeline" ->
                Returned(get_sample("timeline", s, t, get_sample("access_audit", s, t, w)))
          [] tag = "audit_by_user" ->
                Returned(get_sample("user_access", s, t,
                                    get_sample("access_audit", s, t, w)))
          [] tag = "audit_summary" ->
                Summarized(get_sample("access_audit", s, t, w))
          [] tag = "audit_log" ->
                Returned(get_sample("access_audit", s, t, w))
          [] tag = "ai_explanation" -> Out(Own(AIExplanation), w)
          [] tag = "default" -> DefaultResult(w)

get_sample_data_for_query(sql, s, t, w) ==
    IF sql = NoneText THEN Raise(w)
    ELSE Synthesize(Classify(Lower(sql)), s, t, w)

\* where a call made inside the try block raises: nowhere, inside the first generator
\* the branch calls (before anything is stored), or in the branch's own statements after
\* its generators returned
FaultPoints == { "none", "generator", "aggregation" }

\* the world the except block finds: w0 before the branch, r after its generators
WorldAt(fault, w0, r) ==
    IF fault = "generator" THEN w0
    ELSE [cache |-> r.cache, rng |-> r.rng, made |-> r.made]

\* _get_sample_data_for_query in a run where a call inside the try block may raise
get_sample_data_for_query_under(fault, sql, s, t, w) ==
    IF sql = NoneText THEN Raise(w)
    ELSE IF fault = "none" THEN Synthesize(Classify(Lower(sql)), s, t, w)
    ELSE Except(WorldAt(fault, w, Synthesize(Classify(Lower(sql)), s, t, w)))

---------------------------------------------------------------------------
(* The connection facade (SnowflakeConnection) and run_query *)

\* what st.connection("snowflake") does at construction: it raises, or returns a handle,
\* which Python may treat as true or as false in a condition
Acquisitions == { "fail", "live", "falsy" }

\* what the live backend does with one query: a frame, None, or an exception
LiveOutcomes == { "rows", "none", "raise" }

\* the frame a live backend answers with
LiveRowSet == RowSet(<< "LIVE" >>, << << 1 >> >>)

\* __init__ and _initialize_connection: the fields, and the st.info notices emitted
initialize_connection(acq) ==
    IF acq = "fail"
    THEN [connection |-> "None", is_offline |-> TRUE, offline_message_shown |-> TRUE,
          infos |-> 1]
    ELSE [connection |-> acq, is_offline |-> FALSE, offline_message_shown |-> FALSE,
          infos |-> 0]

\* mutant: an offline facade is constructed again on the next use
get_snowflake_connection_retries(acq) ==
    IF constructed /\ ~is_offline
    THEN [connection |-> connection, is_offline |-> is_offline,
          offline_message_shown |-> offline_message_shown, infos |-> 0]
    ELSE initialize_connection(acq)

\* get_snowflake_connection: the global instance, constructed on first use
get_snowflake_connection(acq) ==
    IF constructed
    THEN [connection |-> connection, is_offline |-> is_offline,
          offline_message_shown |-> offline_message_shown, infos |-> 0]
    ELSE initialize_connection(acq)

\* bool(self._connection)
Truthy(handle) == handle = "live"

\* the result record of query: the synthesizer's (or the backend's) result r, with the
\* st.warning notices emitted (warnings), whether the live backend was invoked (live),
\* whether the synthesizer ran (synth), whether the call wrote _is_offline (demoted) and,
\* for run_query, what the try block met (fault)
Annotated(r, warnings, live, synth, demoted) ==
    [df |-> r.df, cache |-> r.cache, rng |-> r.rng, made |-> r.made, errors |-> r.errors,
     raised |-> r.raised, warnings |-> warnings, live |-> live, synth |-> synth,
     demoted |-> demoted, fault |-> "ok", failed |-> r.errors > 0]

\* mutant: a failed live query switches the facade to offline
query_demotes(conn, sql, outcome, s, t, w) ==
    LET live == ~conn.is_offline /\ Truthy(conn.connection)
    IN  IF live /\ outcome = "rows" THEN Annotated(Out(Own(LiveRowSet), w), 0, TRUE, FALSE, FALSE)
        ELSE IF live /\ outcome = "none" THEN Annotated(Out(NoneHandle, w), 0, TRUE, FALSE, FALSE)
        ELSE Annotated(get_sample_data_for_query(sql, s, t, w), IF live THEN 1 ELSE 0, live,
                       TRUE, live)

\* mutant: the live query is attempted whatever the state, the except block falls back
query_unguarded(conn, sql, outcome, s, t, w) ==
    IF Truthy(conn.connection) /\ outcome = "rows"
    THEN Annotated(Out(Own(LiveRowSet), w), 0, TRUE, FALSE, FALSE)
    ELSE IF Truthy(conn.connection) /\ outcome = "none"
    THEN Annotated(Out(NoneHandle, w), 0, TRUE, FALSE, FALSE)
    ELSE Annotated(get_sample_data_for_query(sql, s, t, w), 1, TRUE, TRUE, FALSE)

\* mutant: every call the synthesizer answers warns that sample data is used
query_warns_always(conn, sql, outcome, s, t, w) ==
    LET live == ~conn.is_offline /\ Truthy(conn.connection)
    IN  IF live /\ outcome = "rows" THEN Annotated(Out(Own(LiveRowSet), w), 0, TRUE, FALSE, FALSE)
        ELSE IF live /\ outcome = "none" THEN Annotated(Out(NoneHandle, w), 0, TRUE, FALSE, FALSE)
        ELSE Annotated(get_sample_data_for_query(sql, s, t, w), 1, live, TRUE, FALSE)

\* SnowflakeConnection.query
query(conn, sql, outcome, s, t, w) ==
    LET live == ~conn.is_offline /\ Truthy(conn.connection)
    IN  IF live /\ outcome = "rows" THEN Annotated(Out(Own(LiveRowSet), w), 0, TRUE, FALSE, FALSE)
        ELSE IF live /\ outcome = "none" THEN Annotated(Out(NoneHandle, w), 0, TRUE, FALSE, FALSE)
        ELSE \* the live query raised, or there is no live backend to ask
             Annotated(get_sample_data_for_query(sql, s, t, w), IF live THEN 1 ELSE 0, live,
                       TRUE, FALSE)

\* mutant: run_query without the test for None
Guarded_keeps_none(r) ==
    IF r.raised
    THEN [r EXCEPT !.df = Own(EmptyRowSet), !.errors = @ + 1, !.raised = FALSE,
                   !.fault = "raised"]
    ELSE IF r.df # NoneHandle /\ IsEmpty(Deref(r.df, r.cache))
    THEN [r EXCEPT !.df = Own(EmptyRowSet), !.fault = "empty"]
    ELSE [r EXCEPT !.fault = IF r.df = NoneHandle THEN "none" ELSE "ok"]

\* r is what conn.query(query) did
Guarded(r) ==
    IF r.raised
    THEN [r EXCEPT !.df = Own(EmptyRowSet), !.errors = @ + 1, !.raised = FALSE,
                   !.fault = "raised"]
    ELSE IF r.df = NoneHandle THEN [r EXCEPT !.df = Own(EmptyRowSet), !.fault = "none"]
    ELSE IF IsEmpty(Deref(r.df, r.cache))
    THEN [r EXCEPT !.df = Own(EmptyRowSet), !.fault = "empty"]
    ELSE r

run_query(conn, sql, outcome, s, t, w) == Guarded(query(conn, sql, outcome, s, t, w))

---------------------------------------------------------------------------
(* The state machine *)

World == [cache |-> sample_data_cache, rng |-> rng, made |-> pristine]

NoCall ==
    [op |-> "none", text |-> Text(FALSE, {}), live |-> FALSE, synth |-> FALSE,
     raised |-> FALSE, fault |-> "ok", failed |-> FALSE, was_offline |-> FALSE,
     answer |-> FALSE, shape |-> "none", key |-> "none", hit |-> FALSE,
     injected |-> "none"]

\* the frame a caller got from an earlier call and still holds, and the generator it is of
NotKept == [h |-> NoHandle, key |-> "none"]

\* the branch of the synthesizer that answered sql, if the synthesizer ran
ShapeOf(sql, synth) == IF synth /\ sql # NoneText THEN Classify(Lower(sql)) ELSE "none"

\* the query texts the facade is driven with
DistributionText ==
    Text(TRUE, { "risk_join_aggregated", "count(*)", "sum(record_count)",
                 "group by risk_category", "case" })
UnmatchedText == Text(TRUE, { "where", "case" })
AuditText == Text(FALSE, { "access_audit_log" })
AgeSpecialText ==
    Text(TRUE, { "risk_join_aggregated", "group by age_group", "critical_count", "case",
                 "sum(record_count)" })
AgeBreakdownText == Text(TRUE, { "risk_join_aggregated", "group by age_group", "where" })
QueryTexts ==
    { DistributionText, AgeSpecialText, AgeBreakdownText, UnmatchedText, AuditText, NoneText }

\* st.cache_data's store before any call of run_query
NoMemo == [sql \in {} |-> NoEntry]

\* the render passes that may be inside a generator at the same time
Threads == { "a", "b" }

\* the frame of a thread that is in no generator call
IdleThread ==
    [pc |-> "idle", key |-> "none", k |-> 0, data |-> << >>, df |-> EmptyRowSet,
     missed |-> FALSE, ret |-> NoHandle]

\* no thread moves inside a generator
ThreadsIdle == UNCHANGED threads

\* st.cache_data's store and the clock take no part
MemoIdle == UNCHANGED << memo, clock >>

Init ==
    /\ salt \in 0..MaxSalt
    /\ rng = Seeded(0)
    /\ now = 0
    /\ sample_data_cache = [k \in GenKeys |-> NoEntry]
    /\ pristine = [k \in GenKeys |-> NoEntry]
    /\ constructed = FALSE
    /\ acquisition = "unset"
    /\ connection = "None"
    /\ is_offline = FALSE
    /\ offline_message_shown = FALSE
    /\ notices = [info |-> 0, warning |-> 0, error |-> 0]
    /\ ret = NoHandle
    /\ kept = NotKept
    /\ last = NoCall
    /\ steps = 0
    /\ memo = NoMemo
    /\ clock = 0
    /\ threads = [t \in Threads |-> IdleThread]

\* the effect of a facade call with result r on facade conn
Commit(op, sql, conn, r) ==
    /\ sample_data_cache' = r.cache
    /\ rng' = r.rng
    /\ pristine' = r.made
    /\ constructed' = TRUE
    /\ connection' = conn.connection
    /\ is_offline' = (conn.is_offline \/ r.demoted)
    /\ offline_message_shown' = conn.offline_message_shown
    /\ notices' = [info |-> notices.info + conn.infos,
                   warning |-> notices.warning + r.warnings,
                   error |-> notices.error + r.errors]
    /\ ret' = r.df
    /\ last' = [op |-> op, text |-> sql, live |-> r.live, synth |-> r.synth,
                raised |-> r.raised, fault |-> r.fault, failed |-> r.failed,
                was_offline |-> conn.is_offline, answer |-> FALSE,
                shape |-> ShapeOf(sql, r.synth), key |-> "none", hit |-> FALSE,
                injected |-> IF "injected" \in DOMAIN r THEN r.injected ELSE "none"]
    /\ steps' = steps + 1
    /\ UNCHANGED << salt, now, kept >>

\* a page calls run_query(sql)
RunQuery ==
    /\ steps < MaxSteps
    /\ \E sql \in QueryTexts, acq \in Acquisitions, outcome \in LiveOutcomes :
          LET conn == get_snowflake_connection(acq)
          IN  /\ acquisition' = IF constructed THEN acquisition ELSE acq
              /\ Commit("run_query", sql, conn,
                        run_query(conn, sql, outcome, salt, now, World))
    /\ MemoIdle
    /\ ThreadsIdle

\* a caller holding the facade calls conn.query(sql)
Query ==
    /\ steps < MaxSteps
    /\ \E sql \in QueryTexts, acq \in Acquisitions, outcome \in LiveOutcomes :
          LET conn == get_snowflake_connection(acq)
          IN  /\ acquisition' = IF constructed THEN acquisition ELSE acq
              /\ Commit("query", sql, conn, query(conn, sql, outcome, salt, now, World))
    /\ MemoIdle
    /\ ThreadsIdle

\* is_offline_mode()
IsOfflineMode ==
    /\ steps < MaxSteps
    /\ \E acq \in Acquisitions :
          LET conn == get_snowflake_connection(acq)
          IN  /\ acquisition' = IF constructed THEN acquisition ELSE acq
              /\ constructed' = TRUE
              /\ connection' = conn.connection
              /\ is_offline' = conn.is_offline
              /\ offline_message_shown' = conn.offline_message_shown
              /\ notices' = [notices EXCEPT !.info = @ + conn.infos]
              /\ last' = [NoCall EXCEPT !.op = "is_offline_mode",
                                        !.was_offline = conn.is_offline,
                                        !.answer = conn.is_offline]
    /\ steps' = steps + 1
    /\ UNCHANGED << salt, rng, now, sample_data_cache, pristine, ret, kept >>
    /\ MemoIdle
    /\ ThreadsIdle

Next == RunQuery \/ Query \/ IsOfflineMode

Spec == Init /\ [][Next]_vars

---------------------------------------------------------------------------
(* Properties of the facade and of run_query, under Spec *)

IsRowSet(v) ==
    /\ DOMAIN v = { "cols", "rows" }
    /\ DOMAIN v.cols = 1..Len(v.cols)
    /\ DOMAIN v.rows = 1..Len(v.rows)
    /\ \A i \in 1..Len(v.rows) : Len(v.rows[i]) = Len(v.cols)

FacadeCall == last.op \in { "run_query", "query" }

\* C1: run_query never raises and never returns None: whatever the text, the state of the
\* facade and the outcome of the backend, it returns a Row Set, and the empty Row Set when
\* the facade call raised, returned None, or the synthesizer met an internal error
C1_RunQueryTotal ==
    last.op = "run_query" =>
        /\ ~last.raised
        /\ ret.ref = "own"
        /\ IsRowSet(ret.val)
        /\ (last.fault \in { "raised", "none" } \/ last.failed) => ret.val = EmptyRowSet

C1_Witness ==
    /\ last.op = "run_query"
    /\ last.fault = "none"
    /\ ~last.was_offline
    /\ ret = Own(EmptyRowSet)

\* C2: a facade whose acquisition failed is offline right after construction and after
\* every later call, keeps no handle and never asks the live backend
C2_OfflineForGood ==
    acquisition = "fail" =>
        /\ is_offline
        /\ connection = "None"
        /\ ~last.live
        /\ (last.op = "is_offline_mode" => last.answer)

C2_Witness ==
    /\ acquisition = "fail"
    /\ steps >= 3
    /\ last.op = "run_query"
    /\ is_offline

\* the call of this step met a live backend that raised
LiveRaisedStep == steps' = steps + 1 /\ last'.op = "query" /\ last'.live /\ last'.synth

\* C3: when the live backend raises on a text, that call returns what the synthesizer
\* gives for the text (non-empty for a text of a known shape over data that has rows), the
\* facade is not offline before or after it, and the next call asks the live backend again
C3_FallbackPerCall ==
    [][/\ LiveRaisedStep =>
            /\ ret' = get_sample_data_for_query(last'.text, salt, now, World).df
            /\ (last'.text = AuditText => ret'.ref = "own" /\ ~IsEmpty(ret'.val))
            /\ ~last'.was_offline
            /\ ~is_offline'
            /\ connection' = "live"
       /\ (FacadeCall /\ last.live /\ last.synth /\ steps' = steps + 1
           /\ last'.op \in { "run_query", "query" }) => last'.live]_vars

C3_Witness ==
    /\ last.op = "query"
    /\ last.live
    /\ last.synth
    /\ last.text = AuditText
    /\ ~IsEmpty(ret.val)
    /\ ~is_offline
    /\ steps >= 2

\* C4: a call on an offline facade is answered by the synthesizer and never reaches the
\* live backend
C4_OfflineNeverLive ==
    (FacadeCall /\ last.was_offline) => (~last.live /\ last.synth)

C4_Witness ==
    /\ last.op = "query"
    /\ last.was_offline
    /\ last.synth
    /\ steps >= 2

\* the call of this step was answered by the synthesizer for a text no pattern matches
UnmatchedStep ==
    /\ steps' = steps + 1
    /\ last'.op \in { "run_query", "query" }
    /\ last'.synth
    /\ last'.text # NoneText
    /\ Classify(Lower(last'.text)) = "default"

\* C10: a text that matches no pattern gets the Row Set with no rows and no columns, the
\* call does not raise, and neither the facade's state nor any cache entry changes
C10_UnmatchedIsEmpty ==
    [][UnmatchedStep =>
          /\ ret' = Own(EmptyRowSet)
          /\ ~last'.raised
          /\ ~last'.failed
          /\ sample_data_cache' = sample_data_cache
          /\ (constructed => is_offline' = is_offline /\ connection' = connection)]_vars

C10_Witness ==
    /\ last.op = "query"
    /\ last.text = UnmatchedText
    /\ last.synth
    /\ ret = Own(EmptyRowSet)
    /\ \E k \in GenKeys : sample_data_cache[k] # NoEntry

---------------------------------------------------------------------------
(* Properties of the aggregations over the base dataset, under Spec *)

\* the base dataset of the process: what get_sample_risk_data() has cached
BaseRows == sample_data_cache["risk_data"].rows
BaseField(i, col) == BaseRows[i][ColIx(sample_data_cache["risk_data"], col)]
BaseWith(col, v) == { i \in 1..Len(BaseRows) : BaseField(i, col) = v }

RECURSIVE SumOver(_, _)
SumOver(ixs, col) ==
    IF ixs = {} THEN 0
    ELSE LET i == CHOOSE j \in ixs : TRUE
         IN  BaseField(i, col) + SumOver(ixs \ { i }, col)

\* the call before this state was answered by the synthesizer, for text, without an error
Synthesized(text) ==
    /\ FacadeCall
    /\ last.text = text
    /\ last.synth
    /\ ~last.failed
    /\ last.fault = "ok"

BreakdownHolds ==
    /\ ret.val.cols = BreakdownColumns
    /\ \A i \in 1..Len(BaseRows) :
          \E j \in 1..Len(ret.val.rows) : ret.val.rows[j][1] = BaseField(i, "AGE_GROUP")
    /\ \A j \in 1..Len(ret.val.rows) :
          LET r == ret.val.rows[j]
          IN  /\ r[2] = SumOver(BaseWith("AGE_GROUP", r[1]), "RECORD_COUNT")
              /\ r[4] + r[5] + r[6] + r[7] = r[2]

\* C8: in the age-group breakdown, on the path keyed on critical_count and on the else
\* branch of group by age_group, every age group of the base dataset has a row, and in
\* every row CRITICAL_COUNT + HIGH_COUNT + MEDIUM_COUNT + LOW_COUNT = TOTAL_CUSTOMERS
C8_CountsAddUp ==
    (Synthesized(AgeSpecialText) \/ Synthesized(AgeBreakdownText)) => BreakdownHolds

C8_Witness ==
    /\ Synthesized(AgeBreakdownText)
    /\ Classify(Lower(AgeBreakdownText)) = "age_group_breakdown"
    /\ Classify(Lower(AgeSpecialText)) = "age_group_special"
    /\ Len(ret.val.rows) >= 2
    /\ \E j \in 1..Len(ret.val.rows) :
          Cardinality({ k \in 4..7 : ret.val.rows[j][k] > 0 }) >= 2

\* the category of a stored segment is the one the thresholds give to a composite that
\* rounds to the stored score
ThresholdCategory(i) ==
    \E d \in { -50, 0, 50 } :
       BaseField(i, "RISK_CATEGORY") = CategoryOf4(100 * BaseField(i, "COMPOSITE_RISK_SCORE") + d)

\* C9: the risk-category distribution has exactly one row for each category that occurs
\* in the base dataset and none for the others, the categories being those of the
\* thresholds 75 / 50 / 25; SEGMENT_COUNT is the number of segments of the category and
\* CUSTOMER_COUNT the sum of their record counts
C9_OneRowPerCategory ==
    Synthesized(DistributionText) =>
        /\ ret.val.cols = << "RISK_CATEGORY", "SEGMENT_COUNT", "CUSTOMER_COUNT",
                             "AVG_RISK_SCORE" >>
        /\ \A i \in 1..Len(BaseRows) : ThresholdCategory(i)
        /\ \A c \in { "LOW", "MEDIUM", "HIGH", "CRITICAL" } :
              Cardinality({ j \in 1..Len(ret.val.rows) : ret.val.rows[j][1] = c })
                 = IF BaseWith("RISK_CATEGORY", c) = {} THEN 0 ELSE 1
        /\ \A j \in 1..Len(ret.val.rows) :
              LET r == ret.val.rows[j]
              IN  /\ r[2] = Cardinality(BaseWith("RISK_CATEGORY", r[1]))
                  /\ r[3] = SumOver(BaseWith("RISK_CATEGORY", r[1]), "RECORD_COUNT")

C9_Witness ==
    /\ Synthesized(DistributionText)
    /\ Len(ret.val.rows) = 3
    /\ Len(BaseRows) >= 3

---------------------------------------------------------------------------
(* The generators called directly, between synthesizer calls, by callers *)
(* that change the frames they got                                       *)

\* the facade takes no part
FacadeIdle ==
    UNCHANGED << constructed, acquisition, connection, is_offline, offline_message_shown >>

\* a caller calls get_sample_<key>(), still holding the frame of the call before
GetSample ==
    /\ steps < MaxSteps
    /\ \E key \in GenKeys :
          LET r == get_sample(key, salt, now, World)
          IN  /\ sample_data_cache' = r.cache
              /\ rng' = r.rng
              /\ pristine' = r.made
              /\ ret' = r.df
              /\ kept' = [h |-> ret, key |-> last.key]
              /\ last' = [NoCall EXCEPT !.op = "get_sample", !.key = key,
                                        !.hit = sample_data_cache[key] # NoEntry]
    /\ steps' = steps + 1
    /\ FacadeIdle
    /\ MemoIdle
    /\ ThreadsIdle
    /\ UNCHANGED << salt, now, notices >>

\* conn._get_sample_data_for_query(sql): the synthesizer on its own
SynthesizeText(sql) ==
    LET r == get_sample_data_for_query(sql, salt, now, World)
    IN  /\ sample_data_cache' = r.cache
        /\ rng' = r.rng
        /\ pristine' = r.made
        /\ ret' = r.df
        /\ notices' = [notices EXCEPT !.error = @ + r.errors]
        /\ last' = [NoCall EXCEPT !.op = "get_sample_data_for_query", !.text = sql,
                                  !.synth = TRUE, !.raised = r.raised,
                                  !.failed = r.errors > 0, !.shape = ShapeOf(sql, TRUE)]
        /\ steps' = steps + 1
        /\ FacadeIdle
        /\ MemoIdle
        /\ ThreadsIdle
        /\ UNCHANGED << salt, now, kept >>

RegionJoinText ==
    Text(FALSE, { "bank_customer_risk_summary", "insurance_claim_risk_summary",
                  "b.region = i.region", "group by region" })
GenTexts == { RegionJoinText, DistributionText }

SynthesizeBetween ==
    /\ steps < MaxSteps
    /\ \E sql \in GenTexts : SynthesizeText(sql)

\* display_df.columns = [...]: the labels replaced in place
\* display_df.drop(...): a row removed
MutationKinds == { "columns", "drop" }
Mutated(df, kind) ==
    IF kind = "columns" THEN SetColumns(df, [i \in 1..Len(df.cols) |-> "Display"])
    ELSE RowSet(df.cols, IF df.rows = << >> THEN << >> ELSE Tail(df.rows))

\* the object handle h refers to is changed in place
MutateThrough(h, kind) ==
    /\ h.ref \notin { "None", "raised" }
    /\ IF h.ref = "own"
       THEN /\ IF h = ret
               THEN ret' = Own(Mutated(h.val, kind)) /\ UNCHANGED kept
               ELSE kept' = [kept EXCEPT !.h = Own(Mutated(h.val, kind))] /\ UNCHANGED ret
            /\ UNCHANGED sample_data_cache
       ELSE /\ sample_data_cache' = [sample_data_cache EXCEPT ![h.ref] = Mutated(@, kind)]
            /\ UNCHANGED << ret, kept >>

\* a caller changes the frame it got last, or the one it got before
Mutate ==
    /\ steps < MaxSteps
    /\ \E h \in { ret, kept.h }, kind \in MutationKinds : MutateThrough(h, kind)
    /\ last' = [last EXCEPT !.op = "mutate", !.hit = FALSE]
    /\ steps' = steps + 1
    /\ FacadeIdle
    /\ MemoIdle
    /\ ThreadsIdle
    /\ UNCHANGED << salt, rng, now, pristine, notices >>

\* time passes
Tick ==
    /\ steps < MaxSteps
    /\ now < MaxNow
    /\ now' = now + 1
    /\ last' = [last EXCEPT !.op = "tick", !.hit = FALSE]
    /\ steps' = steps + 1
    /\ FacadeIdle
    /\ MemoIdle
    /\ ThreadsIdle
    /\ UNCHANGED << salt, rng, sample_data_cache, pristine, notices, ret, kept >>

NextGen == GetSample \/ SynthesizeBetween \/ Mutate \/ Tick

SpecGen == Init /\ [][NextGen]_vars

\* the step is a call of get_sample_<key>()
GetSampleStep(key) == steps' = steps + 1 /\ last'.op = "get_sample" /\ last'.key = key

\* C5: every call of the risk-segment generator returns the frame the generation from the
\* fixed seed gives, and a call after the first returns the content the first one built,
\* whatever generators, synthesizer calls, mutations or time came between
C5_RiskDataRepeats ==
    [][GetSampleStep("risk_data") =>
          /\ Deref(ret', sample_data_cache') = GenerateRiskData(salt).df
          /\ (pristine["risk_data"] # NoEntry =>
                  Deref(ret', sample_data_cache') = pristine["risk_data"])]_vars

C5_Witness ==
    /\ last.op = "get_sample"
    /\ last.key = "risk_data"
    /\ last.hit
    /\ steps >= 3
    /\ rng # Seeded(0)
    /\ ~IsEmpty(ret.val)
    /\ ret.val = pristine["risk_data"]

\* C6: a frame a generator returned, on a miss or on a hit, is an object of its own:
\* changing one changes neither the cache entry, nor the other frame a caller holds, and
\* every call returns the content the generator built
C6_CopyIsolation ==
    [][/\ (steps' = steps + 1 /\ last'.op = "mutate") =>
              /\ sample_data_cache' = sample_data_cache
              /\ (Deref(ret', sample_data_cache') = Deref(ret, sample_data_cache)
                  \/ Deref(kept'.h, sample_data_cache') = Deref(kept.h, sample_data_cache))
       /\ \A key \in GenKeys :
              GetSampleStep(key) =>
                 /\ ret'.ref = "own"
                 /\ ret'.val = pristine'[key]
                 /\ sample_data_cache'[key] = pristine'[key]
                 /\ (last'.hit => ret'.val = pristine[key])
                 /\ kept'.h.val = ret.val]_vars

C6_Witness ==
    /\ last.op = "get_sample"
    /\ last.hit
    /\ kept.key = last.key
    /\ last.key = "access_audit"
    /\ ~IsEmpty(ret.val)
    /\ kept.h.val # ret.val
    /\ ret.val = pristine[last.key]

---------------------------------------------------------------------------
(* The classifier over the texts a few tokens make *)

MaxTokens == 3

ClassifyTokens ==
    { "risk_join_aggregated", "approved_questions_cache", "fraud_cross_signals",
      "privacy_compliance_log", "bank_customer_risk_summary",
      "insurance_claim_risk_summary", "b.region = i.region", "group by region",
      "b.age_group = i.age_group", "group by age_group", "count(*)" }

ClassifyTexts ==
    { Text(upper, toks) : upper \in BOOLEAN,
                          toks \in { T \in SUBSET ClassifyTokens : Cardinality(T) <= MaxTokens } }

InitClassify ==
    /\ salt \in 0..MaxSalt
    /\ rng = Seeded(0)
    /\ now = 0
    /\ sample_data_cache = [k \in GenKeys |-> NoEntry]
    /\ pristine = [k \in GenKeys |-> NoEntry]
    /\ constructed = FALSE
    /\ acquisition = "unset"
    /\ connection = "None"
    /\ is_offline = FALSE
    /\ offline_message_shown = FALSE
    /\ notices = [info |-> 0, warning |-> 0, error |-> 0]
    /\ ret = NoHandle
    /\ kept = NotKept
    /\ last \in { [NoCall EXCEPT !.op = "pending", !.text = sql] : sql \in ClassifyTexts }
    /\ steps = 0
    /\ memo = NoMemo
    /\ clock = 0
    /\ threads = [t \in Threads |-> IdleThread]

\* the text at hand goes through the synthesizer
SynthesizePending ==
    /\ last.op = "pending"
    /\ SynthesizeText(last.text)

NextClassify == SynthesizePending

SpecClassify == InitClassify /\ [][NextClassify]_vars

JoinShapes == { "region_join", "age_group_join" }

\* the text holds a join-equality token together with its GROUP BY clause
HasJoinShape(sql_lower) ==
    \/ Contains("b.region = i.region", sql_lower) /\ Contains("group by region", sql_lower)
    \/ Contains("b.age_group = i.age_group", sql_lower)
          /\ Contains("group by age_group", sql_lower)

\* C7: a text with a join-equality token and its GROUP BY clause is answered by a
\* join-comparison branch, whatever table names it holds besides
C7_JoinsBeforeTables ==
    (last.op = "get_sample_data_for_query" /\ HasJoinShape(Lower(last.text)))
        => last.shape \in JoinShapes

\* the tables whose branches stand before the join branches in the chain
EarlierTables ==
    { "risk_join_aggregated", "approved_questions_cache", "fraud_cross_signals",
      "privacy_compliance_log" }

\* what the chain does instead: a join branch answers such a text exactly when the text
\* names none of the tables tested before it
JoinsAfterEarlierTables ==
    (last.op = "get_sample_data_for_query" /\ HasJoinShape(Lower(last.text))) =>
        (last.shape \in JoinShapes
            <=> \A tok \in EarlierTables : ~Contains(tok, Lower(last.text)))

C7_Witness ==
    /\ last.op = "get_sample_data_for_query"
    /\ last.text = Text(TRUE, { "risk_join_aggregated", "b.region = i.region",
                                "group by region" })
    /\ last.shape = "region_aggregation"
    /\ ~IsEmpty(ret.val)

---------------------------------------------------------------------------
(* The facade's fallback path when a call inside the synthesizer raises *)

FaultTexts == { DistributionText, AgeSpecialText, AuditText, RegionJoinText, UnmatchedText }

\* conn.query(sql) in a call the synthesizer answers: the facade is offline, or holds no
\* usable handle, or the live backend raises
QueryFaulty ==
    /\ steps < MaxSteps
    /\ \E sql \in FaultTexts, acq \in Acquisitions, fault \in FaultPoints :
          LET conn == get_snowflake_connection(acq)
              live == ~conn.is_offline /\ Truthy(conn.connection)
              r == Annotated(get_sample_data_for_query_under(fault, sql, salt, now, World),
                             IF live THEN 1 ELSE 0, live, TRUE, FALSE)
          IN  /\ acquisition' = IF constructed THEN acquisition ELSE acq
              /\ Commit("query", sql, conn, r @@ [injected |-> fault])
    /\ MemoIdle
    /\ ThreadsIdle

NextFault == QueryFaulty

SpecFault == Init /\ [][NextFault]_vars

\* C11: a failure inside the synthesizer, in a generator or in a branch's own statements,
\* ends in the empty Row Set handed to the caller of query; no exception leaves query
C11_SynthesisFailureIsEmpty ==
    (last.op = "query" /\ last.text # NoneText) =>
        /\ ~last.raised
        /\ ret.ref = "own"
        /\ last.injected # "none" =>
              /\ ret = Own(EmptyRowSet)
              /\ last.failed
              /\ notices.error >= 1

C11_Witness ==
    /\ last.op = "query"
    /\ last.injected = "aggregation"
    /\ last.text = DistributionText
    /\ sample_data_cache["risk_data"] # NoEntry
    /\ ret = Own(EmptyRowSet)
    /\ ~last.raised

---------------------------------------------------------------------------
(* The queries of the pages: the text, and the SELECT list the page reads *)

PageQuery(text, select) == [text |-> text, select |-> select]

summary_query ==
    PageQuery(Text(TRUE, { "risk_join_aggregated", "count(*)", "sum(record_count)", "case" }),
              << "TOTAL_SEGMENTS", "TOTAL_CUSTOMERS", "AVG_RISK", "HIGH_RISK_COUNT" >>)
risk_dist_query ==
    PageQuery(DistributionText, << "RISK_CATEGORY", "SEGMENT_COUNT", "CUSTOMER_COUNT" >>)
age_risk_query ==
    PageQuery(Text(TRUE, { "risk_join_aggregated", "group by age_group", "avg_risk_score",
                           "customer_count", "sum(record_count)" }),
              << "AGE_GROUP", "AVG_RISK_SCORE", "CUSTOMER_COUNT" >>)
regional_query ==
    PageQuery(Text(TRUE, { "risk_join_aggregated", "group by region", "count(*)", "case",
                           "customer_count", "sum(record_count)" }),
              << "REGION", "AVG_RISK", "CUSTOMER_COUNT", "SEGMENT_COUNT",
                 "HIGH_RISK_CUSTOMERS" >>)
activity_query ==
    PageQuery(Text(TRUE, { "privacy_compliance_log", "check_type" }),
              << "CHECK_TYPE", "CHECK_RESULT", "SUMMARY", "CHECKED_AT" >>)
\* the Pre-Approved Questions page: Q002 and Q003
age_query == PageQuery(AgeSpecialText, BreakdownColumns)
regional_query_Q003 ==
    PageQuery(Text(TRUE, { "risk_join_aggregated", "group by region", "count(*)", "case",
                           "sum(record_count)" }),
              << "REGION", "AVG_RISK", "TOTAL_CUSTOMERS", "SEGMENT_COUNT", "HIGH_RISK_COUNT",
                 "HIGH_RISK_PCT" >>)

PageQueries ==
    { summary_query, risk_dist_query, age_risk_query, regional_query, activity_query,
      age_query, regional_query_Q003 }

\* the page queries, and a text for the else branch of group by age_group
\* the Risk Explorer's main query: the ten columns of the view under the sidebar's filters
ExplorerText == Text(TRUE, { "risk_join_aggregated", "where", "age_group in", "region in" })

PageTexts == { q.text : q \in PageQueries } \cup { AgeBreakdownText, ExplorerText }

\* a page runs one of its queries
RunPageQuery ==
    /\ steps < MaxSteps
    /\ \E sql \in PageTexts, acq \in Acquisitions, outcome \in LiveOutcomes :
          LET conn == get_snowflake_connection(acq)
          IN  /\ acquisition' = IF constructed THEN acquisition ELSE acq
              /\ Commit("run_query", sql, conn,
                        run_query(conn, sql, outcome, salt, now, World))
    /\ MemoIdle
    /\ ThreadsIdle

\* the privacy threshold: the smallest group size that may be shown
min_k == 3

apply_k_anonymity_filter_strict(df, count_column, k) ==
    FrameOf(df.cols, SelectSeq(df.rows, LAMBDA row : row[ColIx(df, count_column)] > k))

\* df[df[count_column] >= min_k].copy(): the rows whose count reaches the threshold
apply_k_anonymity_filter(df, count_column, k) ==
    FrameOf(df.cols, SelectSeq(df.rows, LAMBDA row : row[ColIx(df, count_column)] >= k))

\* a caller passes the Row Set it was handed through the k-anonymity filter
ApplyKAnonymityFilter ==
    /\ steps < MaxSteps
    /\ last.op = "run_query"
    /\ HasCol(Deref(ret, sample_data_cache), "RECORD_COUNT")
    /\ ret' = Own(apply_k_anonymity_filter(Deref(ret, sample_data_cache),
                                           "RECORD_COUNT", min_k))
    /\ last' = [last EXCEPT !.op = "apply_k_anonymity_filter"]
    /\ steps' = steps + 1
    /\ UNCHANGED << salt, rng, now, sample_data_cache, pristine, constructed,
                    acquisition, connection, is_offline, offline_message_shown,
                    notices, kept >>
    /\ MemoIdle
    /\ ThreadsIdle

\* what format_risk_score puts into its HTML: the score to 2 decimals and the category;
\* the score is in hundredths
format_risk_score(score) ==
    [shown |-> score,
     category |-> IF score >= 7500 THEN "CRITICAL"
                  ELSE IF score >= 5000 THEN "HIGH"
                  ELSE IF score >= 2500 THEN "MEDIUM"
                  ELSE "LOW"]

\* the loop over df[risk_column]: each score adds one to the count of its category
calculate_risk_distribution(df, risk_column) ==
    LET score(j) == df.rows[j][ColIx(df, risk_column)]
        count(lo, hi) == Cardinality({ j \in 1..Len(df.rows) :
                                          score(j) >= lo /\ score(j) < hi })
    IN  [LOW |-> Cardinality({ j \in 1..Len(df.rows) : score(j) < 2500 }),
         MEDIUM |-> count(2500, 5000),
         HIGH |-> count(5000, 7500),
         CRITICAL |-> Cardinality({ j \in 1..Len(df.rows) : score(j) >= 7500 })]

DistributionColumns == << "LOW", "MEDIUM", "HIGH", "CRITICAL" >>

\* a page formats the composite score of one row it was handed; the row stays in kept
FormatRiskScore ==
    /\ steps < MaxSteps
    /\ last.op = "run_query"
    /\ HasCol(ret.val, "COMPOSITE_RISK_SCORE")
    /\ \E j \in 1..Len(ret.val.rows) :
          /\ kept' = [h |-> Own(RowSet(ret.val.cols, << ret.val.rows[j] >>)), key |-> "none"]
          /\ last' = [last EXCEPT
                         !.op = "format_risk_score",
                         !.shape = format_risk_score(
                                      Cell(ret.val, j, "COMPOSITE_RISK_SCORE")).category]
    /\ steps' = steps + 1
    /\ UNCHANGED << salt, rng, now, sample_data_cache, pristine, constructed,
                    acquisition, connection, is_offline, offline_message_shown,
                    notices, ret >>
    /\ MemoIdle
    /\ ThreadsIdle

\* a page counts the categories of the Row Set it was handed; the Row Set stays in kept
CalculateRiskDistribution ==
    /\ steps < MaxSteps
    /\ last.op = "run_query"
    /\ HasCol(ret.val, "COMPOSITE_RISK_SCORE")
    /\ LET distribution == calculate_risk_distribution(ret.val, "COMPOSITE_RISK_SCORE")
       IN  ret' = Own(RowSet(DistributionColumns,
                             << << distribution.LOW, distribution.MEDIUM,
                                   distribution.HIGH, distribution.CRITICAL >> >>))
    /\ kept' = [h |-> ret, key |-> "none"]
    /\ last' = [last EXCEPT !.op = "calculate_risk_distribution"]
    /\ steps' = steps + 1
    /\ UNCHANGED << salt, rng, now, sample_data_cache, pristine, constructed,
                    acquisition, connection, is_offline, offline_message_shown,
                    notices >>
    /\ MemoIdle
    /\ ThreadsIdle

NextPages ==
    \/ RunPageQuery
    \/ ApplyKAnonymityFilter
    \/ FormatRiskScore
    \/ CalculateRiskDistribution

SpecPages == Init /\ [][NextPages]_vars

\* the SELECT list of the page query with this text
SelectOf(text) == (CHOOSE q \in PageQueries : q.text = text).select

\* C12: the Row Set synthesized for a page's query has the columns of the query's SELECT
\* list, in that order and number
C12_ColumnsAsSelected ==
    (\E q \in PageQueries : Synthesized(q.text)) => ret.val.cols = SelectOf(last.text)

C12_Witness ==
    /\ Synthesized(regional_query.text)
    /\ last.shape = "region_segments"
    /\ ret.val.cols = << "REGION", "CUSTOMER_COUNT", "AVG_RISK", "SEGMENT_COUNT" >>
    /\ Len(regional_query.select) = 5

CountColumns == << "CRITICAL_COUNT", "HIGH_COUNT", "MEDIUM_COUNT", "LOW_COUNT" >>
CountCategories == << "CRITICAL", "HIGH", "MEDIUM", "LOW" >>

\* C13: the per-region aggregation has the four count columns, each the sum of the record
\* counts of the base rows of the region and the category
C13_RegionBreakdown ==
    (FacadeCall /\ last.synth /\ ~last.failed /\ last.fault = "ok"
        /\ last.shape \in { "region_segments", "region_aggregation" }) =>
        \A k \in 1..4 :
           /\ HasCol(ret.val, CountColumns[k])
           /\ \A j \in 1..Len(ret.val.rows) :
                 Cell(ret.val, j, CountColumns[k])
                    = SumOver(BaseWith("REGION", ret.val.rows[j][1])
                                 \cap BaseWith("RISK_CATEGORY", CountCategories[k]),
                              "RECORD_COUNT")

C13_Witness ==
    /\ Synthesized(regional_query_Q003.text)
    /\ last.shape = "region_segments"
    /\ Len(ret.val.rows) >= 2
    /\ \A k \in 1..4 : ~HasCol(ret.val, CountColumns[k])

\* the rows of a per-age-group result: the age groups of the base dataset, in order, each
\* with the sum of its record counts
AgeRowsHold ==
    /\ \A i \in 1..Len(BaseRows) :
          \E j \in 1..Len(ret.val.rows) : ret.val.rows[j][1] = BaseField(i, "AGE_GROUP")
    /\ \A j \in 1..Len(ret.val.rows) :
          /\ ret.val.rows[j][2] = SumOver(BaseWith("AGE_GROUP", ret.val.rows[j][1]),
                                          "RECORD_COUNT")
          /\ BaseWith("AGE_GROUP", ret.val.rows[j][1]) # {}
          /\ \A k \in 1..(j - 1) : ret.val.rows[k][1] # ret.val.rows[j][1]

\* C14: group by age_group on the risk table: a text asking for avg_risk_score and
\* customer_count gets AGE_GROUP, CUSTOMER_COUNT, AVG_RISK_SCORE and nothing else; any other
\* gets AGE_GROUP, TOTAL_CUSTOMERS, AVG_RISK and the four counts; the age groups and their
\* totals are the same in both
C14_AgeGroupColumns ==
    (FacadeCall /\ last.synth /\ ~last.failed /\ last.fault = "ok") =>
        /\ last.shape = "age_group_scores" =>
              /\ ret.val.cols = << "AGE_GROUP", "CUSTOMER_COUNT", "AVG_RISK_SCORE" >>
              /\ AgeRowsHold
        /\ last.shape \in { "age_group_special", "age_group_breakdown" } =>
              /\ ret.val.cols = << "AGE_GROUP", "TOTAL_CUSTOMERS", "AVG_RISK" >> \o CountColumns
              /\ AgeRowsHold

C14_Witness ==
    /\ Synthesized(age_risk_query.text)
    /\ last.shape = "age_group_scores"
    /\ Classify(Lower(AgeBreakdownText)) = "age_group_breakdown"
    /\ Len(ret.val.rows) >= 2
    /\ Len(ret.val.cols) = 3

---------------------------------------------------------------------------
(* Notices: C15 under Spec, C16 under SpecPages *)

\* C15: the offline notice is emitted once, when the construction fails, and never again;
\* a later call on the offline facade (a query, run_query, is_offline_mode, each of which
\* asks get_snowflake_connection first) emits no notice
C15_OfflineNoticeOnce ==
    [][steps' = steps + 1 =>
          /\ notices'.info = IF acquisition' = "fail" THEN 1 ELSE 0
          /\ (constructed /\ is_offline /\ last'.text # NoneText) => notices' = notices]_vars

C15_Witness ==
    /\ acquisition = "fail"
    /\ steps >= 3
    /\ last.op = "query"
    /\ last.was_offline
    /\ last.synth
    /\ notices = [info |-> 1, warning |-> 0, error |-> 0]

\* C16: whatever fails, the caller gets a Row Set, and all failures of a facade's lifetime
\* together emit at most one notice
C16_AtMostOneNotice ==
    /\ (last.op = "run_query" => ret.ref = "own" /\ IsRowSet(ret.val))
    /\ notices.info + notices.warning + notices.error <= 1

C16_Witness ==
    /\ last.op = "run_query"
    /\ last.live
    /\ last.synth
    /\ last.text = activity_query.text
    /\ ~IsEmpty(ret.val)
    /\ notices = [info |-> 0, warning |-> 2, error |-> 0]

---------------------------------------------------------------------------
(* run_query behind st.cache_data(ttl=300): the store is keyed by the     *)
(* text, an entry answers calls while it is younger than the ttl          *)

\* ttl of the st.cache_data decorator of run_query, in seconds
TTL == 300

\* the entry the store holds for text sql
Entry(store, sql) == IF sql \in DOMAIN store THEN store[sql] ELSE NoEntry

Fresh_forever(entry, t) == entry # NoEntry

\* an entry answers a call at time t while it is younger than the ttl
Fresh(entry, t) == entry # NoEntry /\ t - entry.at < TTL

\* AuditText with some of its letters in upper case
AuditTextUpper == Text(TRUE, { "access_audit_log" })
MemoTexts == { AuditText, AuditTextUpper, DistributionText, UnmatchedText }

\* a page calls the decorated run_query(sql): the store answers if it holds a fresh
\* entry for the text, else the body runs and its Row Set is stored
RunQueryCached ==
    /\ steps < MaxSteps
    /\ \E sql \in MemoTexts, acq \in Acquisitions, outcome \in LiveOutcomes :
          LET entry == Entry(memo, sql)
          IN  IF Fresh(entry, clock)
              THEN /\ ret' = Own(entry.df)
                   /\ last' = [NoCall EXCEPT !.op = "run_query", !.text = sql, !.hit = TRUE]
                   /\ steps' = steps + 1
                   /\ FacadeIdle
                   /\ UNCHANGED << salt, rng, now, sample_data_cache, pristine, notices,
                                   kept, memo, clock, threads >>
              ELSE LET conn == get_snowflake_connection(acq)
                       r == run_query(conn, sql, outcome, salt, now, World)
                   IN  /\ acquisition' = IF constructed THEN acquisition ELSE acq
                       /\ Commit("run_query", sql, conn, r)
                       /\ memo' = (sql :> [df |-> Deref(r.df, r.cache), at |-> clock]) @@ memo
                       /\ UNCHANGED << clock, threads >>

\* seconds pass: one less than the ttl, or one more
Wait ==
    /\ steps < MaxSteps
    /\ \E d \in { TTL - 1, TTL + 1 } : clock' = clock + d
    /\ last' = [last EXCEPT !.op = "wait", !.hit = FALSE]
    /\ steps' = steps + 1
    /\ FacadeIdle
    /\ UNCHANGED << salt, rng, now, sample_data_cache, pristine, notices, ret, kept, memo,
                    threads >>

NextMemo == RunQueryCached \/ Wait

SpecMemo == Init /\ [][NextMemo]_vars

\* the step is a call of the decorated run_query(sql)
RunQueryStep(sql) == steps' = steps + 1 /\ last'.op = "run_query" /\ last'.text = sql

\* C17: a call of run_query whose text was stored less than 300 seconds ago returns the
\* stored Row Set and leaves the facade, the backend, the synthesizer and the store alone;
\* any other call runs the facade and stores what it returned under its text; the entries
\* of all other texts stay as they are
C17_RunQueryMemoized ==
    [][\A sql \in MemoTexts : RunQueryStep(sql) =>
          /\ IF sql \in DOMAIN memo /\ clock - memo[sql].at < 300
             THEN /\ Deref(ret', sample_data_cache') = memo[sql].df
                  /\ ~last'.live
                  /\ ~last'.synth
                  /\ UNCHANGED << constructed, connection, is_offline, offline_message_shown,
                                  sample_data_cache, rng, notices, memo >>
             ELSE /\ constructed'
                  /\ last'.live \/ last'.synth
                  /\ sql \in DOMAIN memo'
                  /\ memo'[sql] = [df |-> Deref(ret', sample_data_cache'), at |-> clock]
          /\ \A other \in DOMAIN memo \ { sql } :
                other \in DOMAIN memo' /\ memo'[other] = memo[other]]_vars

\* a repeat inside the window answered from the store with the fallback Row Set the
\* first call got after its live execution raised, the same text in upper case not stored
C17_Witness ==
    /\ last.op = "run_query"
    /\ last.hit
    /\ last.text = AuditText
    /\ clock = TTL - 1
    /\ memo[AuditText].at = 0
    /\ ret.val = memo[AuditText].df
    /\ ~IsEmpty(ret.val)
    /\ notices = [info |-> 0, warning |-> 1, error |-> 0]
    /\ AuditTextUpper \notin DOMAIN memo

---------------------------------------------------------------------------
(* Render passes run as threads of one process: _sample_data_cache and    *)
(* numpy's global PRNG are shared, a thread switch may fall between any   *)
(* two statements of a generator                                          *)

RaceKeys == { "risk_data", "access_audit" }

\* the rest of the state takes no part in a step inside a generator
GeneratorStep ==
    /\ FacadeIdle
    /\ MemoIdle
    /\ UNCHANGED << salt, now, notices, ret, kept, last, steps >>

\* thread t enters get_sample_<key>()
Call(t) ==
    /\ threads[t].pc = "idle"
    /\ \E key \in RaceKeys :
          threads' = [threads EXCEPT ![t] = [IdleThread EXCEPT !.pc = "test", !.key = key]]
    /\ UNCHANGED << rng, sample_data_cache, pristine >>
    /\ GeneratorStep

\* if key in _sample_data_cache: return _sample_data_cache[key].copy()
Test(t) ==
    LET th == threads[t]
    IN  /\ th.pc = "test"
        /\ threads' = [threads EXCEPT ![t] =
              IF sample_data_cache[th.key] # NoEntry
              THEN [th EXCEPT !.pc = "done", !.ret = CopyCached(th.key, sample_data_cache)]
              ELSE [th EXCEPT !.pc = IF th.key = "risk_data" THEN "seed" ELSE "loop",
                              !.missed = TRUE]]
        /\ UNCHANGED << rng, sample_data_cache, pristine >>
        /\ GeneratorStep

\* np.random.seed(42)
Seed(t) ==
    /\ threads[t].pc = "seed"
    /\ rng' = Seeded(RiskSeed)
    /\ threads' = [threads EXCEPT ![t].pc = "loop"]
    /\ UNCHANGED << sample_data_cache, pristine >>
    /\ GeneratorStep

\* one pass of the loop over the combinations of get_sample_risk_data, with the draws
\* taken from the PRNG as it stands; df = pd.DataFrame(data) after the last
LoopRisk(t, th, step) ==
    /\ rng' = step.rng
    /\ threads' = [threads EXCEPT ![t] =
          [th EXCEPT !.k = th.k + 1,
                     !.data = th.data \o step.rows,
                     !.df = FrameOf(RiskColumns, th.data \o step.rows),
                     !.pc = IF th.k + 1 >= NCombos THEN "store" ELSE "loop"]]

\* the loop of get_sample_access_audit_data, which draws without seeding
LoopAudit(t, th, out) ==
    /\ rng' = out.rng
    /\ threads' = [threads EXCEPT ![t] = [th EXCEPT !.df = out.df, !.pc = "store"]]

Loop(t) ==
    LET th == threads[t]
    IN  /\ th.pc = "loop"
        /\ IF th.key = "risk_data"
           THEN LoopRisk(t, th, RiskRecord(salt, rng, Len(th.data) + 1, ComboRegion(th.k),
                                           ComboAge(th.k), ComboOccupation(th.k)))
           ELSE LoopAudit(t, th, GenerateAccessAuditData(salt, rng, now))
        /\ UNCHANGED << sample_data_cache, pristine >>
        /\ GeneratorStep

\* _sample_data_cache[key] = df
StoreEntry(t) ==
    LET th == threads[t]
    IN  /\ th.pc = "store"
        /\ sample_data_cache' = [sample_data_cache EXCEPT ![th.key] = th.df]
        /\ pristine' = [pristine EXCEPT ![th.key] = IF @ = NoEntry THEN th.df ELSE @]
        /\ threads' = [threads EXCEPT ![t].pc = "return"]
        /\ UNCHANGED rng
        /\ GeneratorStep

\* return df.copy()
Return(t) ==
    LET th == threads[t]
    IN  /\ th.pc = "return"
        /\ threads' = [threads EXCEPT ![t] =
              [th EXCEPT !.pc = "done", !.ret = CopyFresh(th.key, th.df)]]
        /\ UNCHANGED << rng, sample_data_cache, pristine >>
        /\ GeneratorStep

NextRace ==
    \E t \in Threads : Call(t) \/ Test(t) \/ Seed(t) \/ Loop(t) \/ StoreEntry(t) \/ Return(t)

SpecRace == Init /\ [][NextRace]_vars

\* both threads have returned from get_sample_<key>()
BothDone(key) == \A t \in Threads : threads[t].pc = "done" /\ threads[t].key = key

\* C18: when the threads call get_sample_risk_data() concurrently, each gets the Row Set
\* a single sequential first call returns, and the cache ends holding that Row Set
C18_ConcurrentFirstCalls ==
    BothDone("risk_data") =>
        /\ \A t \in Threads : threads[t].ret = Own(GenerateRiskData(salt).df)
        /\ sample_data_cache["risk_data"] = GenerateRiskData(salt).df

\* both threads found no entry and generated; one got a Row Set no sequential call gives
C18_Witness ==
    /\ BothDone("risk_data")
    /\ \A t \in Threads : threads[t].missed
    /\ threads["a"].ret # Own(GenerateRiskData(salt).df)
    /\ threads["b"].ret = Own(GenerateRiskData(salt).df)

\* C19: once a generator's cache entry is written its content never changes
C19_EntriesNeverChange ==
    [][\A key \in GenKeys :
          sample_data_cache[key] # NoEntry =>
              sample_data_cache'[key] = sample_data_cache[key]]_vars

\* an entry holds something else than what was first written under its key
C19_Witness ==
    \E key \in RaceKeys :
        /\ pristine[key] # NoEntry
        /\ sample_data_cache[key] # pristine[key]
        /\ \A t \in Threads : threads[t].key = key /\ threads[t].missed

---------------------------------------------------------------------------
(* Seeding of the generators, under SpecGen *)

\* the generators whose Row Sets hold random fields
RandomKeys ==
    { "risk_data", "bank_raw", "insurance_raw", "correlation", "composite_risk",
      "access_audit", "timeline" }

\* the Row Set get_sample_<key>() builds when it is the first to draw from the PRNG
FirstInProcess(key) == Generate(key, salt, Seeded(0), now).df

\* C20: the first call of a generator with random fields returns the Row Set it builds
\* when nothing drew from the PRNG before it, whatever ran before
C20_FixedSeedPerEntity ==
    [][\A key \in RandomKeys :
          (GetSampleStep(key) /\ ~last'.hit) =>
              Deref(ret', sample_data_cache') = FirstInProcess(key)]_vars

\* a first call of the access audit generator, after another generator drew from the PRNG,
\* returned other values than it builds as the first to draw
C20_Witness ==
    /\ last.op = "get_sample"
    /\ last.key = "access_audit"
    /\ ~last.hit
    /\ rng.seed = BankSeed
    /\ ~IsEmpty(ret.val)
    /\ ret.val # FirstInProcess("access_audit")

---------------------------------------------------------------------------
(* The order of the classifier's tests, on texts built from the tokens    *)
(* the top-level tests and the access-audit tests look for                *)

PrecedenceTokens ==
    { "group by age_group", "critical_count", "risk_join_aggregated",
      "approved_questions_cache", "fraud_cross_signals", "privacy_compliance_log",
      "b.region = i.region", "group by region", "b.age_group = i.age_group",
      "b.customer_id = i.customer_id", "bank_risk", "insurance_risk", "union all",
      "bank_customer_risk_summary", "insurance_claim_risk_summary",
      "composite_risk_category", "risk_driver", "access_audit_log",
      "explain_risk_anomaly", "ai_insights", "date(executed_at)", "group by",
      "group by user_name", "count(*)", "count(distinct user_name)" }

\* the sets of at most n of these tokens
RECURSIVE TokenSets(_)
TokenSets(n) ==
    IF n = 0 THEN { {} }
    ELSE LET smaller == TokenSets(n - 1)
         IN  smaller \cup { S \cup { t } : S \in smaller, t \in PrecedenceTokens }

PrecedenceTexts == { Text(TRUE, toks) : toks \in TokenSets(MaxTokens) }

InitPrecedence ==
    /\ salt = 0
    /\ rng = Seeded(0)
    /\ now = 0
    /\ sample_data_cache = [k \in GenKeys |-> NoEntry]
    /\ pristine = [k \in GenKeys |-> NoEntry]
    /\ constructed = FALSE
    /\ acquisition = "unset"
    /\ connection = "None"
    /\ is_offline = FALSE
    /\ offline_message_shown = FALSE
    /\ notices = [info |-> 0, warning |-> 0, error |-> 0]
    /\ ret = NoHandle
    /\ kept = NotKept
    /\ last \in { [NoCall EXCEPT !.op = "pending", !.text = sql] : sql \in PrecedenceTexts }
    /\ steps = 0
    /\ memo = NoMemo
    /\ clock = 0
    /\ threads = [t \in Threads |-> IdleThread]

\* sql_lower = sql.lower() and the chain of tests, up to the branch taken
ClassifyPending ==
    /\ last.op = "pending"
    /\ last' = [last EXCEPT !.op = "classify", !.shape = Classify(Lower(last.text))]
    /\ FacadeIdle
    /\ MemoIdle
    /\ ThreadsIdle
    /\ UNCHANGED << salt, rng, now, sample_data_cache, pristine, notices, ret, kept, steps >>

NextPrecedence == ClassifyPending

SpecPrecedence == InitPrecedence /\ [][NextPrecedence]_vars

\* the text satisfies the test of rule i of the documented order
Matches(i, t) ==
    LET in(tok) == Contains(tok, t)
    IN  CASE i = 1 -> in("group by age_group") /\ in("critical_count")
                         /\ in("risk_join_aggregated")
          [] i = 2 -> in("risk_join_aggregated")
          [] i = 3 -> in("approved_questions_cache")
          [] i = 4 -> in("fraud_cross_signals")
          [] i = 5 -> in("privacy_compliance_log")
          [] i = 6 -> in("b.region = i.region") /\ in("group by region")
          [] i = 7 -> in("b.age_group = i.age_group") /\ in("group by age_group")
          [] i = 8 -> in("b.customer_id = i.customer_id")
                         \/ (in("bank_risk") /\ in("insurance_risk"))
          [] i = 9 -> in("union all") /\ in("bank_customer_risk_summary")
                         /\ in("insurance_claim_risk_summary")
          [] i = 10 -> in("bank_customer_risk_summary") \/ in("insurance_claim_risk_summary")
          [] i = 11 -> in("composite_risk_category") \/ in("risk_driver")
          [] i = 12 -> in("access_audit_log")
          [] i = 13 -> in("explain_risk_anomaly") \/ in("ai_insights")
          [] OTHER -> TRUE

\* the earliest rule whose test the text satisfies
FirstRule(t) == CHOOSE i \in 1..14 : Matches(i, t) /\ \A j \in 1..(i - 1) : ~Matches(j, t)

\* the branches that belong to each rule
RuleShapes(i) ==
    CASE i = 1 -> { "age_group_special" }
      [] i = 2 -> { "risk_category_distribution", "age_group_scores", "age_group_breakdown",
                    "region_segments", "region_aggregation", "risk_composite_case",
                    "risk_summary", "risk_table_scan" }
      [] i = 3 -> { "approved_questions" }
      [] i = 4 -> { "fraud_signals" }
      [] i = 5 -> { "compliance_grouped", "compliance_log" }
      [] i = 6 -> { "region_join" }
      [] i = 7 -> { "age_group_join" }
      [] i = 8 -> { "correlation" }
      [] i = 9 -> { "union_summary" }
      [] i = 10 -> { "bank_raw", "insurance_raw" }
      [] i = 11 -> { "composite_by_driver" }
      [] i = 12 -> { "audit_timeline", "audit_by_user", "audit_summary", "audit_log" }
      [] i = 13 -> { "ai_explanation" }
      [] OTHER -> { "default" }

\* the access-audit branch the sub-order timeline, per-user, summary picks
AuditShape(t) ==
    LET in(tok) == Contains(tok, t)
    IN  IF in("date(executed_at)") /\ in("group by") THEN "audit_timeline"
        ELSE IF in("group by user_name") THEN "audit_by_user"
        ELSE IF in("count(*)") /\ in("count(distinct user_name)") /\ ~in("group by")
        THEN "audit_summary"
        ELSE "audit_log"

\* C21: the branch that answers a text belongs to the earliest rule of the documented
\* order that the text satisfies, and inside the access-audit rule the branch is picked
\* in the order timeline, per-user, summary
C21_DocumentedPrecedence ==
    last.op = "classify" =>
        /\ last.shape \in RuleShapes(FirstRule(Lower(last.text)))
        /\ (FirstRule(Lower(last.text)) = 12 => last.shape = AuditShape(Lower(last.text)))

\* a text that satisfies the tests of the rules 3, 4 and 12 was answered by rule 3
C21_Witness ==
    /\ last.op = "classify"
    /\ { i \in 1..14 : Matches(i, Lower(last.text)) } = { 3, 4, 12, 14 }
    /\ last.shape = "approved_questions"

---------------------------------------------------------------------------
(* One record of get_sample_risk_data, over the values its draws can take *)

\* values of np.random.random() the integer draw is derived from, in thousandths
UnitDraws == { 0, 500, 999 }

\* values np.random.uniform(15, 85) can return, in thousandths
ScoreDraws == { 15000, 19542, 24994, 24996, 32774, 49996, 59634, 66074, 74996, 84999 }

\* the loop body appends the record for the values drawn; df = pd.DataFrame(data)
BuildRecord ==
    /\ steps < MaxSteps
    /\ \E u \in UnitDraws, bank_risk \in ScoreDraws, insurance_risk \in ScoreDraws :
          ret' = Own(FrameOf(RiskColumns,
                             << RiskRow(1, regions[1], age_groups[1], occupations[1],
                                        RandIntOf(u, 3, 25), bank_risk, insurance_risk,
                                        500 + 8 * u) >>))
    /\ last' = [NoCall EXCEPT !.op = "risk_record"]
    /\ steps' = steps + 1
    /\ FacadeIdle
    /\ MemoIdle
    /\ ThreadsIdle
    /\ UNCHANGED << salt, rng, now, sample_data_cache, pristine, notices, kept >>

NextScores == BuildRecord

SpecScores == Init /\ [][NextScores]_vars

\* the category the threshold table gives a score in hundredths
CategoryOfStored(c2) ==
    IF c2 >= 7500 THEN "CRITICAL"
    ELSE IF c2 >= 5000 THEN "HIGH"
    ELSE IF c2 >= 2500 THEN "MEDIUM"
    ELSE "LOW"

\* C22: in a stored record the composite score is 0.6 x the stored bank score + 0.4 x the
\* stored insurance score, rounded to 2 decimals, and the category is the one the
\* thresholds give the stored composite score
C22_StoredRecordConsistent ==
    last.op = "risk_record" =>
        /\ Cell(ret.val, 1, "COMPOSITE_RISK_SCORE")
              = RoundHalfEven(6 * Cell(ret.val, 1, "AVG_BANK_RISK_SCORE")
                                 + 4 * Cell(ret.val, 1, "AVG_INSURANCE_RISK_SCORE"), 10)
        /\ Cell(ret.val, 1, "RISK_CATEGORY")
              = CategoryOfStored(Cell(ret.val, 1, "COMPOSITE_RISK_SCORE"))

\* a record whose stored composite differs from the weighting of its stored scores
C22_Witness ==
    /\ last.op = "risk_record"
    /\ Cell(ret.val, 1, "AVG_BANK_RISK_SCORE") = 6607
    /\ Cell(ret.val, 1, "AVG_INSURANCE_RISK_SCORE") = 5963
    /\ Cell(ret.val, 1, "COMPOSITE_RISK_SCORE")
          # RoundHalfEven(6 * 6607 + 4 * 5963, 10)
    /\ Cell(ret.val, 1, "RISK_CATEGORY")
          = CategoryOfStored(Cell(ret.val, 1, "COMPOSITE_RISK_SCORE"))

---------------------------------------------------------------------------
(* The join simulations, under SpecGen *)

\* the step is an execution of text sql by the synthesizer
SynthesizeStep(sql) ==
    steps' = steps + 1 /\ last'.op = "get_sample_data_for_query" /\ last'.text = sql

\* C23: an execution of the region join text that follows another execution of it
\* returns the same values
C23_JoinValuesRepeat ==
    [][(last.op = "get_sample_data_for_query" /\ last.text = RegionJoinText
            /\ SynthesizeStep(RegionJoinText))
          => ret' = ret]_vars

\* the second execution of the region join text in a process, with other values than
\* the first execution returned
C23_Witness ==
    /\ last.op = "get_sample_data_for_query"
    /\ last.text = RegionJoinText
    /\ rng = Skip(Seeded(0), 2 * 3 * Len(regions))
    /\ ~IsEmpty(ret.val)
    /\ ret.val # RegionJoin(salt, Seeded(0)).df

---------------------------------------------------------------------------
(* The aggregations over the risk table, under SpecPages *)

AllBase == 1..Len(BaseRows)

\* the mean of the stored composite scores of the base rows ixs, rounded to 2 decimals
RoundedMean(ixs) == RoundHalfEven(SumOver(ixs, "COMPOSITE_RISK_SCORE"), Cardinality(ixs))

\* an exact quotient of hundredths that is a number of hundredths
RoundedToHundredths(mean) == mean.num % mean.den = 0

\* C24: in the aggregations over the risk table by risk category, age group and region
\* and in the summary statistics, the mean of the composite score is rounded to 2
\* decimals, the customer count is the sum of the record counts of the group and the
\* segment count is the number of base rows of the group
C24_AggregatesRounded ==
    /\ Synthesized(risk_dist_query.text) =>
          \A j \in 1..Len(ret.val.rows) :
              LET r == ret.val.rows[j]
                  group == BaseWith("RISK_CATEGORY", r[1])
              IN  /\ r[2] = Cardinality(group)
                  /\ r[3] = SumOver(group, "RECORD_COUNT")
                  /\ r[4] = RoundedMean(group)
    /\ Synthesized(age_risk_query.text) =>
          \A j \in 1..Len(ret.val.rows) :
              LET r == ret.val.rows[j]
                  group == BaseWith("AGE_GROUP", r[1])
              IN  /\ r[2] = SumOver(group, "RECORD_COUNT")
                  /\ r[3] = RoundedMean(group)
    /\ Synthesized(regional_query.text) =>
          \A j \in 1..Len(ret.val.rows) :
              LET r == ret.val.rows[j]
                  group == BaseWith("REGION", r[1])
              IN  /\ r[2] = SumOver(group, "RECORD_COUNT")
                  /\ r[3] = RoundedMean(group)
                  /\ r[4] = Cardinality(group)
    /\ Synthesized(summary_query.text) =>
          LET r == ret.val.rows[1]
          IN  /\ r[1] = Len(BaseRows)
              /\ r[2] = SumOver(AllBase, "RECORD_COUNT")
              /\ RoundedToHundredths(r[3])
              /\ r[3].num \div r[3].den = RoundedMean(AllBase)

\* the summary statistics over several segments, with a mean of more than 2 decimals
C24_Witness ==
    /\ Synthesized(summary_query.text)
    /\ last.shape = "risk_summary"
    /\ Len(BaseRows) >= 2
    /\ ret.val.rows[1][1] = Len(BaseRows)
    /\ ret.val.rows[1][2] = SumOver(AllBase, "RECORD_COUNT")
    /\ ~RoundedToHundredths(ret.val.rows[1][3])

---------------------------------------------------------------------------
(* The connected facade, under Spec *)

\* C25: on a facade whose construction acquired a handle, every query goes to the live
\* backend first, whatever the handle is
C25_ConnectedAsksLive ==
    (last.op = "query" /\ ~last.was_offline) => last.live

\* a query on a facade that is not offline, answered by the synthesizer without a live
\* attempt and without a notice
C25_Witness ==
    /\ last.op = "query"
    /\ acquisition = "falsy"
    /\ ~is_offline
    /\ ~last.was_offline
    /\ ~last.live
    /\ last.synth
    /\ notices = [info |-> 0, warning |-> 0, error |-> 0]

---------------------------------------------------------------------------
(* What a generator call changes, under SpecGen *)

\* C26: a generator call that finds its entry leaves the cache and the PRNG as they are;
\* a call that does not find it writes the entry of its own key and no other
C26_HitChangesNothing ==
    [][\A key \in GenKeys :
          GetSampleStep(key) =>
              IF sample_data_cache[key] # NoEntry
              THEN sample_data_cache' = sample_data_cache /\ rng' = rng
              ELSE /\ sample_data_cache'[key] # NoEntry
                   /\ \A other \in GenKeys \ { key } :
                         sample_data_cache'[other] = sample_data_cache[other]]_vars

\* a hit of the access audit generator after a miss of the bank generator, which left
\* the PRNG where the bank generator's loop ended
C26_Witness ==
    /\ last.op = "get_sample"
    /\ last.key = "access_audit"
    /\ last.hit
    /\ steps = 3
    /\ sample_data_cache["bank_raw"] # NoEntry
    /\ rng = GenerateBankData(salt).rng

---------------------------------------------------------------------------
(* Customer totals across the shapes of the risk table, under SpecPages *)

\* the sum of column k over the rows of the Row Set returned
ReturnedSum(k) == SumSeq([j \in 1..Len(ret.val.rows) |-> ret.val.rows[j][k]])

\* the sum of RECORD_COUNT over the base dataset
BaseTotal == SumOver(AllBase, "RECORD_COUNT")

\* CUSTOMER_COUNT of the row of a category in the risk-category distribution of the base
\* dataset, 0 if the distribution has no such row
DistributionCount(category) ==
    LET dist == RiskCategoryDistribution(sample_data_cache["risk_data"])
        found == { j \in 1..Len(dist.rows) : dist.rows[j][1] = category }
    IN  IF found = {} THEN 0 ELSE Cell(dist, CHOOSE j \in found : TRUE, "CUSTOMER_COUNT")

\* C27: the customer counts of the risk-category rows, of the age-group rows, of the
\* region rows and of the summary row all add up to the sum of RECORD_COUNT over the
\* base dataset, and the summary's HIGH_RISK_COUNT is the CUSTOMER_COUNT of the HIGH
\* row plus that of the CRITICAL row of the distribution
C27_TotalsConserved ==
    /\ Synthesized(risk_dist_query.text) => ReturnedSum(3) = BaseTotal
    /\ (Synthesized(age_risk_query.text) \/ Synthesized(age_query.text)
           \/ Synthesized(AgeBreakdownText)) => ReturnedSum(2) = BaseTotal
    /\ (Synthesized(regional_query.text) \/ Synthesized(regional_query_Q003.text))
          => ReturnedSum(2) = BaseTotal
    /\ Synthesized(summary_query.text) =>
          /\ Cell(ret.val, 1, "TOTAL_CUSTOMERS") = BaseTotal
          /\ Cell(ret.val, 1, "HIGH_RISK_COUNT")
                = DistributionCount("HIGH") + DistributionCount("CRITICAL")

\* the summary over a base dataset with HIGH segments and segments of other categories
C27_Witness ==
    /\ Synthesized(summary_query.text)
    /\ Len(BaseRows) >= 2
    /\ Cell(ret.val, 1, "HIGH_RISK_COUNT") > 0
    /\ Cell(ret.val, 1, "HIGH_RISK_COUNT") < Cell(ret.val, 1, "TOTAL_CUSTOMERS")
    /\ Cell(ret.val, 1, "TOTAL_CUSTOMERS") = BaseTotal

---------------------------------------------------------------------------
(* Risk table texts that no aggregation pattern matches *)

\* what such texts may hold besides the table name: WHERE filters, a CASE, a GROUP BY on
\* a column no test names, aggregates and aliases that no test asks for on their own
ScanTokens ==
    { "where", "age_group in", "region in", "case", "group by", "sum(record_count)",
      "avg_risk_score", "customer_count" }

ScanTexts ==
    { Text(upper, { "risk_join_aggregated" } \cup toks) :
         upper \in BOOLEAN, toks \in SUBSET ScanTokens }

InitScan ==
    /\ salt \in 0..MaxSalt
    /\ rng = Seeded(0)
    /\ now = 0
    /\ sample_data_cache = [k \in GenKeys |-> NoEntry]
    /\ pristine = [k \in GenKeys |-> NoEntry]
    /\ constructed = FALSE
    /\ acquisition = "unset"
    /\ connection = "None"
    /\ is_offline = FALSE
    /\ offline_message_shown = FALSE
    /\ notices = [info |-> 0, warning |-> 0, error |-> 0]
    /\ ret = NoHandle
    /\ kept = NotKept
    /\ last \in { [NoCall EXCEPT !.op = "pending", !.text = sql] : sql \in ScanTexts }
    /\ steps = 0
    /\ memo = NoMemo
    /\ clock = 0
    /\ threads = [t \in Threads |-> IdleThread]

\* the text at hand goes through the synthesizer
SynthesizeScan ==
    /\ last.op = "pending"
    /\ SynthesizeText(last.text)

NextScan == SynthesizeScan

SpecScan == InitScan /\ [][NextScan]_vars

\* C28: a risk table text that matches no aggregation pattern is answered with the whole
\* base dataset and all its columns, whatever filters, SELECT list or other clauses it
\* holds: all such texts get the same Row Set
C28_ScanReturnsBase ==
    last.op = "get_sample_data_for_query" =>
        /\ last.shape = "risk_table_scan"
        /\ ~last.failed
        /\ ret.val = GenerateRiskData(salt).df
        /\ ret.val = sample_data_cache["risk_data"]

\* a text with WHERE filters, a CASE and a GROUP BY got all columns of several segments
C28_Witness ==
    /\ last.op = "get_sample_data_for_query"
    /\ { "where", "age_group in", "region in", "case", "group by" } \subseteq last.text.toks
    /\ last.text.upper
    /\ ret.val.cols = RiskColumns
    /\ Len(ret.val.rows) >= 2
    /\ ret.val = sample_data_cache["risk_data"]

\* ---------------------------------------------------------------------------
\* C29: every record of the base dataset stands for 3 to 24 customers, so every
\* group total of the aggregated shapes is at least 3, the age summary has a row
\* for every age group of the base dataset (a HAVING SUM(record_count) >= 3
\* would remove none), and the k-anonymity filter with threshold 3 over
\* RECORD_COUNT returns the base dataset unchanged.

GroupTotalsReach(k) == \A j \in 1..Len(ret.val.rows) : ret.val.rows[j][k] >= min_k

C29_KAnonymityHolds ==
    /\ sample_data_cache["risk_data"] # NoEntry =>
          \A i \in AllBase : BaseField(i, "RECORD_COUNT") \in min_k..24
    /\ Synthesized(risk_dist_query.text) => GroupTotalsReach(3)
    /\ (Synthesized(age_risk_query.text) \/ Synthesized(AgeBreakdownText)
           \/ Synthesized(regional_query.text) \/ Synthesized(regional_query_Q003.text))
          => GroupTotalsReach(2)
    /\ Synthesized(age_query.text) =>
          /\ GroupTotalsReach(2)
          /\ \A i \in AllBase :
                \E j \in 1..Len(ret.val.rows) :
                    ret.val.rows[j][1] = BaseField(i, "AGE_GROUP")
    /\ last.op = "apply_k_anonymity_filter" =>
          /\ ret.val = sample_data_cache["risk_data"]
          /\ ret.val = GenerateRiskData(salt).df

\* the filter ran over a base dataset of several records, one of them of exactly 3
C29_Witness ==
    /\ last.op = "apply_k_anonymity_filter"
    /\ last.text = ExplorerText
    /\ Len(ret.val.rows) >= 2
    /\ \E j \in 1..Len(ret.val.rows) : Cell(ret.val, j, "RECORD_COUNT") = min_k

\* ---------------------------------------------------------------------------
\* C30: format_risk_score, calculate_risk_distribution and the generator give a
\* score the same category, so the four counts of calculate_risk_distribution
\* add up to the number of rows and, over the stored COMPOSITE_RISK_SCORE
\* column of the base dataset, each count is the number of rows stored with
\* that RISK_CATEGORY.

StoredWith(df, category) ==
    Cardinality({ j \in 1..Len(df.rows) : Cell(df, j, "RISK_CATEGORY") = category })

\* what holds of the three threshold tables: one category per score, the same in
\* all three, and counts that add up to the number of rows
ThresholdTablesAgree ==
    /\ last.op = "format_risk_score" =>
          LET score == Cell(kept.h.val, 1, "COMPOSITE_RISK_SCORE")
          IN  /\ last.shape = CategoryOf4(score * 100)
              /\ calculate_risk_distribution(kept.h.val, "COMPOSITE_RISK_SCORE")[last.shape] = 1
    /\ last.op = "calculate_risk_distribution" =>
          SumSeq(ret.val.rows[1]) = Len(kept.h.val.rows)

===========================================================================
